---- MODULE Spec2Model ----
(***************************************************************************)
(* A model of the support_scraper package: the scrape orchestrator         *)
(* (scraper.py: scrape_urls and its per-URL task `process`), the URL cache *)
(* (cache.py) and the chunker (chunker.py).                                *)
(*                                                                         *)
(* The tasks of scrape_urls are asyncio coroutines: the code between two   *)
(* awaits runs atomically, so every action below is one such stretch of    *)
(* `process`, from the await that resumes it to the next await it reaches. *)
(***************************************************************************)
EXTENDS Integers, Sequences, FiniteSets, TLC

NULL == "None"

\* ------------------------------------------------------------------ bounds
MaxConcurrency == 2

\* ------------------------------------------------------------ input domains
Urls == {"u1", "u2"}
DocIds == {"d1", "d2"}
Hashes == {"h1", "h2"}
FetchModes == {"true", "false", "auto"}

Fields ==
  {"doc_id", "content_hash", "updated_at", "etag", "last_modified",
   "last_scraped", "status", "error"}

VARIABLES
  \* configuration and arguments of scrape_urls
  resume, obey_robots, fetch_mode, save_screenshots, concurrency, robots_allows,
  \* shared state of one run
  stats, errors, errors_file, existing_articles, cache, semaphore,
  \* per-task state (locals of `process`)
  pc, cache_entry, fetch_result, patch,
  \* the run itself (the body of scrape_urls after the tasks are created)
  run_pc, articles_file, writes, loaded,
  \* observations of the collaborators' calls, per URL
  http_calls, http_arg, http_outcome, pw_calls, extract_calls, upserts, counted,
  \* one call of chunk_article: its arguments, its two lists and its position
  article, chunk_cfg, chunks, merged, chunk_pc, previous,
  \* calls of Cache.upsert on a table: the table before, the arguments, the table
  table0, upsert_url, upsert_fields, table, upsert_calls,
  \* a RateLimiter and the callers of its wait(): the limiter's fields, the
  \* monotonic clock, each caller's position, and what was observed of the calls
  rate_per_sec, next_allowed, lock_holder, lock_waiters, now, wait_pc, wake_at,
  called_at, lock_order, returns,
  \* two extractions: what each found (title, updated_at, markdown), the
  \* content_hash of each
  found1, found2, hash1, hash2, hash_pc,
  \* one call of HttpFetcher.fetch: its configuration and argument, the loop
  \* variable, its position, the response of the attempt under way, how the call
  \* ended, and what was observed of its attempts
  retries, backoff_base, backoff_max, fetch_arg, attempt, fetch_pc, response,
  fetch_ret, fetch_exc, waits, gets, sleeps, attempt_log,
  \* one call of wait_for_any_selector: the number of selectors, the state of
  \* each wait task, the order in which the tasks completed, how many of them the
  \* loop has awaited, the position of the call and how the try block was left
  selectors, tasks, completed, awaited, sel_pc, sel_exit,
  \* a run of scrape_urls whose collaborators answer as fixed beforehand: what
  \* the fetches and the extraction of each URL give, and the cache at startup
  script, cache0

config_vars == <<resume, obey_robots, fetch_mode, save_screenshots, concurrency, robots_allows>>
shared_vars == <<stats, errors, errors_file, existing_articles, cache, semaphore>>
task_vars == <<pc, cache_entry, fetch_result, patch>>
run_vars == <<run_pc, articles_file, writes, loaded>>
obs_vars == <<http_calls, http_arg, http_outcome, pw_calls, extract_calls, upserts, counted>>
obs_calls_vars == <<http_calls, http_arg, http_outcome, pw_calls, extract_calls, upserts>>
scrape_vars == <<config_vars, shared_vars, task_vars, run_vars, obs_vars>>
chunk_vars == <<article, chunk_cfg, chunks, merged, chunk_pc, previous>>
upsert_vars == <<table0, upsert_url, upsert_fields, table, upsert_calls>>
limiter_vars ==
  <<rate_per_sec, next_allowed, lock_holder, lock_waiters, now, wait_pc, wake_at,
    called_at, lock_order, returns>>
hash_vars == <<found1, found2, hash1, hash2, hash_pc>>
fetch_vars ==
  <<retries, backoff_base, backoff_max, fetch_arg, attempt, fetch_pc, response,
    fetch_ret, fetch_exc, waits, gets, sleeps, attempt_log>>
selector_vars == <<selectors, tasks, completed, awaited, sel_pc, sel_exit>>
fetcher_vars == <<fetch_vars, selector_vars>>
order_vars == <<script, cache0>>
lib_vars == <<chunk_vars, upsert_vars, limiter_vars, hash_vars, fetcher_vars, order_vars>>
vars == <<scrape_vars, lib_vars>>

\* ------------------------------------------------------------------ cache
NoFields == [f \in Fields |-> NULL]

Row(doc, hash, upd, etag, lm, ls, status, err) ==
  [doc_id |-> doc, content_hash |-> hash, updated_at |-> upd, etag |-> etag,
   last_modified |-> lm, last_scraped |-> ls, status |-> status, error |-> err]

Coalesce_Overwrite(new, old) == new

Coalesce(new, old) == IF new # NULL THEN new ELSE old

Upsert_Replace(c, url, p) ==
  [x \in DOMAIN c \cup {url} |-> IF x = url THEN p ELSE c[x]]

\* Cache.upsert: INSERT ... ON CONFLICT(url) DO UPDATE SET f = COALESCE(excluded.f, cache.f)
Upsert(c, url, p) ==
  LET old == IF url \in DOMAIN c THEN c[url] ELSE NoFields
      new == [f \in Fields |-> Coalesce(p[f], old[f])]
  IN  [x \in DOMAIN c \cup {url} |-> IF x = url THEN new ELSE c[x]]

\* HttpFetcher.fetch: If-None-Match / If-Modified-Since are sent when the cache
\* entry it is given holds an etag / a last_modified.
ValidatorsSent(arg) ==
  arg # <<>> /\ (arg[1].etag # NULL \/ arg[1].last_modified # NULL)

\* Cache.get: the row as a one-element sequence, or <<>> for None
Get(c, url) == IF url \in DOMAIN c THEN <<c[url]>> ELSE <<>>

\* ------------------------------------------------------------------ stats
ZeroStats ==
  [success |-> 0, failed |-> 0, skipped |-> 0, updated |-> 0, unchanged |-> 0,
   auth_required |-> 0]

Inc(s, fs) == [f \in DOMAIN s |-> IF f \in fs THEN s[f] + 1 ELSE s[f]]

Bump_Lost(u, fs) ==
  /\ stats' = Inc(counted[u], fs)
  /\ counted' = [counted EXCEPT ![u] = Inc(@, fs)]

Bump(u, fs) ==
  /\ stats' = Inc(stats, fs)
  /\ counted' = [counted EXCEPT ![u] = Inc(@, fs)]

\* ------------------------------------------------------- the environment
\* Response headers that matter to the orchestrator: etag and last-modified.
NoHeaders == [etag |-> NULL, last_modified |-> NULL]
Headers == {NoHeaders, [etag |-> "e1", last_modified |-> "lm1"]}

NoResult ==
  [set |-> FALSE, html |-> NULL, etag |-> NULL, last_modified |-> NULL,
   not_modified |-> FALSE, used_playwright |-> FALSE]

\* FetchResult(..., status=304, html=None, headers=..., not_modified=True)
NotModifiedResult(hd) ==
  [set |-> TRUE, html |-> NULL, etag |-> hd.etag, last_modified |-> hd.last_modified,
   not_modified |-> TRUE, used_playwright |-> FALSE]

\* FetchResult(url, status, html, final_url, headers)
HttpResult(html, hd) ==
  [set |-> TRUE, html |-> html, etag |-> hd.etag, last_modified |-> hd.last_modified,
   not_modified |-> FALSE, used_playwright |-> FALSE]

\* FetchResult(url, status=200, html, final_url, used_playwright=True): headers is None
PwResult(html) ==
  [set |-> TRUE, html |-> html, etag |-> NULL, last_modified |-> NULL,
   not_modified |-> FALSE, used_playwright |-> TRUE]

Htmls == {"", "html"}

\* What HttpFetcher.fetch can end in: a result, or an exception of one of three
\* classes (BlockedError, a FetchError that is no BlockedError, any other Exception).
HttpOutcomes ==
  {[raise |-> NULL, result |-> NotModifiedResult(hd)] : hd \in {NoHeaders}}
  \cup {[raise |-> NULL, result |-> HttpResult(h, hd)] : h \in Htmls, hd \in Headers}
  \cup {[raise |-> k, result |-> NoResult] : k \in {"BlockedError", "FetchError", "Exception"}}

\* PlaywrightFetcher.fetch wraps every failure of an attempt in FetchError; what it
\* raises outside its try block (limiter, new_page, page.close) is any Exception.
PwOutcomes ==
  {[raise |-> NULL, result |-> PwResult(h)] : h \in Htmls}
  \cup {[raise |-> k, result |-> NoResult] : k \in {"FetchError", "Exception"}}

\* extract_article returns an article or raises ValueError (no body, body too
\* short, no title) or any other Exception.
Article(u, d, h) ==
  [doc_id |-> d, content_hash |-> h, updated_at |-> IF h = "h1" THEN NULL ELSE "upd2",
   scraped_at |-> "t1", url |-> u]

\* The doc_id comes from the page (a platform id found in the HTML, else the hash
\* of the canonical URL), so two URLs of the list can yield the same doc_id.
ExtractedDocIds(u) == IF u = "u1" THEN {"d1"} ELSE DocIds

ExtractOutcomes(u) ==
  {[raise |-> NULL, article |-> Article(u, d, h)] : d \in ExtractedDocIds(u), h \in Hashes}
  \cup {[raise |-> k, article |-> Article(u, "d1", "h1")] : k \in {"ValueError", "Exception"}}

\* An article of the corpus file read at startup.
LoadedArticle(d) ==
  [doc_id |-> d, content_hash |-> "h1", updated_at |-> NULL, scraped_at |-> "t0",
   url |-> "prior"]

\* ------------------------------------------------------------- scrape_urls
Acquire_Free(sem) == sem

\* `async with semaphore`: entering the block takes a permit.
Acquire(sem) == sem - 1

Release_Leak(sem) == sem

\* `async with semaphore`: the permit goes back when the task leaves the block.
Release(sem) == sem + 1

pw_fetcher_Always == TRUE

\* should_enable_playwright: pw_fetcher is an instance exactly then
pw_fetcher == fetch_mode # "false" \/ save_screenshots

Put_Alone(f, k, v) == [x \in {k} |-> v]

\* existing_articles[article["doc_id"]] = article
Put(f, k, v) == [x \in DOMAIN f \cup {k} |-> IF x = k THEN v ELSE f[x]]

ExceptClause_BlockedGeneric(k) ==
  CASE k = "ValueError" -> "value"
    [] k \in {"BlockedError", "FetchError", "Exception"} -> "generic"
    [] OTHER -> "uncaught"

ExceptClause_NoCatchAll(k) ==
  CASE k = "ValueError" -> "value"
    [] k = "BlockedError" -> "blocked"
    [] k = "FetchError" -> "generic"
    [] OTHER -> "uncaught"

\* The except clause of `process` that catches an exception of class k.
ExceptClause(k) ==
  CASE k = "ValueError" -> "value"
    [] k = "BlockedError" -> "blocked"
    [] k \in {"FetchError", "Exception"} -> "generic"
    [] OTHER -> "uncaught"

ErrorRecord(u, msg) == [url |-> u, error |-> msg, timestamp |-> "t1"]

FailurePatch_AlwaysError(status, msg) ==
  [NoFields EXCEPT !.status = "error", !.last_scraped = "t1", !.error = msg]

\* cache.upsert(url, status=..., last_scraped=now_iso(), error=...)
FailurePatch(status, msg) ==
  [NoFields EXCEPT !.status = status, !.last_scraped = "t1", !.error = msg]

\* The bookkeeping of an except clause, up to its `await cache.upsert`.
RecordFailure(u, clause, msg) ==
  LET text == IF clause = "blocked" THEN "auth_required" ELSE msg
  IN  /\ Bump(u, IF clause = "blocked" THEN {"failed", "auth_required"} ELSE {"failed"})
      /\ errors' = Append(errors, ErrorRecord(u, text))
      /\ errors_file' = Append(errors_file, ErrorRecord(u, text))
      /\ patch' = [patch EXCEPT ![u] =
                     FailurePatch(IF clause = "blocked" THEN "auth_required" ELSE "error", text)]
      /\ pc' = [pc EXCEPT ![u] = "upsert_failed"]
      /\ UNCHANGED semaphore

\* An exception of class k with message msg raised inside the try block of `process`.
Fail(u, k, msg) ==
  LET clause == ExceptClause(k)
  IN  CASE clause = "uncaught" ->
             /\ pc' = [pc EXCEPT ![u] = "raised"]
             /\ semaphore' = Release(semaphore)
             /\ UNCHANGED <<stats, counted, errors, errors_file, patch>>
        [] clause = "value" /\ save_screenshots /\ pw_fetcher ->
             /\ pc' = [pc EXCEPT ![u] = "screenshot"]
             /\ patch' = [patch EXCEPT ![u] = FailurePatch("error", msg)]
             /\ UNCHANGED <<stats, counted, errors, errors_file, semaphore>>
        [] OTHER -> RecordFailure(u, clause, msg)

Message(k) == "msg_" \o k

\* cache_entry.get(f) if cache_entry else None
EntryField(entry, f) == IF entry # <<>> THEN entry[1][f] ELSE NULL

\* has_cached_article = bool(cached_doc_id and cached_doc_id in existing_articles)
HasCachedArticle(entry, corpus) ==
  EntryField(entry, "doc_id") # NULL /\ EntryField(entry, "doc_id") \in DOMAIN corpus

ResumeSkip_IgnoresCorpus(entry, corpus) ==
  resume /\ entry # <<>> /\ EntryField(entry, "status") = "success"

\* resume and cache_entry and cache_entry.get("status") == "success" and has_cached_article
ResumeSkip(entry, corpus) ==
  resume /\ entry # <<>> /\ EntryField(entry, "status") = "success"
         /\ HasCachedArticle(entry, corpus)

ConditionalCache_Always(entry, corpus) == entry

\* conditional_cache = cache_entry if has_cached_article else None
ConditionalCache(entry, corpus) == IF HasCachedArticle(entry, corpus) THEN entry ELSE <<>>

UseFallback_IgnoresMode == pw_fetcher

\* In the inner `except BlockedError`: re-raise, or fall back to the rendered fetch.
UseFallback == ~(fetch_mode = "false" \/ ~pw_fetcher)

RobotsBlocks_Never(u) == FALSE

\* config.get("obey_robots", True) and parser and not allowed_by_robots(parser, url, ...)
RobotsBlocks(u) == obey_robots /\ ~robots_allows[u]

\* The task starts: it takes a permit and, with robots enforcement on, asks the
\* host's parser (loaded before the tasks start) whether the URL is allowed.
Start(u) ==
  /\ run_pc = "gather" /\ pc[u] = "start" /\ semaphore > 0
  /\ semaphore' = Acquire(semaphore)
  /\ IF RobotsBlocks(u)
       THEN /\ Bump(u, {"skipped"})
            /\ patch' = [patch EXCEPT ![u] =
                           [NoFields EXCEPT !.status = "blocked", !.last_scraped = "t1"]]
            /\ pc' = [pc EXCEPT ![u] = "upsert_blocked"]
       ELSE /\ pc' = [pc EXCEPT ![u] = "cache_get"]
            /\ UNCHANGED <<stats, counted, patch>>
  /\ UNCHANGED <<lib_vars, config_vars, errors, errors_file, existing_articles, cache, cache_entry,
                 fetch_result, run_vars, obs_calls_vars>>

\* cache.get returns; the task skips the URL (resume) or calls a fetch strategy.
CacheLookup(u) ==
  /\ run_pc = "gather" /\ pc[u] = "cache_get"
  /\ LET entry == Get(cache, u)
     IN  /\ IF ResumeSkip(entry, existing_articles)
            THEN /\ Bump(u, {"skipped"})
                 /\ pc' = [pc EXCEPT ![u] = "done"]
                 /\ semaphore' = Release(semaphore)
                 /\ cache_entry' = [cache_entry EXCEPT ![u] = <<>>]
                 /\ UNCHANGED <<errors, errors_file, patch, http_calls, http_arg, pw_calls>>
            ELSE IF fetch_mode = "true"
            THEN IF ~pw_fetcher
                 THEN /\ Fail(u, "FetchError", "Playwright unavailable")
                      /\ cache_entry' = [cache_entry EXCEPT ![u] = entry]
                      /\ UNCHANGED <<http_calls, http_arg, pw_calls>>
                 ELSE /\ pw_calls' = [pw_calls EXCEPT ![u] = @ + 1]
                      /\ cache_entry' = [cache_entry EXCEPT ![u] = entry]
                      /\ pc' = [pc EXCEPT ![u] = "pw_fetch"]
                      /\ UNCHANGED <<stats, counted, errors, errors_file, patch, semaphore,
                                     http_calls, http_arg>>
            ELSE /\ http_calls' = [http_calls EXCEPT ![u] = @ + 1]
                 /\ cache_entry' = [cache_entry EXCEPT ![u] = entry]
                 /\ http_arg' = [http_arg EXCEPT ![u] = ConditionalCache(entry, existing_articles)]
                 /\ pc' = [pc EXCEPT ![u] = "http_fetch"]
                 /\ UNCHANGED <<stats, counted, errors, errors_file, patch, semaphore, pw_calls>>
  /\ UNCHANGED <<lib_vars, config_vars, existing_articles, cache, fetch_result, run_vars,
                 http_outcome, extract_calls, upserts>>

\* cached_hash and cached_hash == article["content_hash"]
SameHash(entry, art) ==
  EntryField(entry, "content_hash") # NULL
  /\ EntryField(entry, "content_hash") = art.content_hash

ReconcileStats_AlwaysSuccess(entry, art) ==
  IF EntryField(entry, "content_hash") # NULL THEN {"success", "updated"} ELSE {"success"}

ReconcileStats_Uncounted(entry, art) == {}

\* The counters the reconciling step increments.
ReconcileStats(entry, art) ==
  IF SameHash(entry, art) THEN {"skipped", "unchanged"}
  ELSE IF EntryField(entry, "content_hash") # NULL THEN {"success", "updated"}
  ELSE {"success"}

ReconcileCorpus_AlwaysPut(entry, art, corpus) == Put(corpus, art.doc_id, art)

ReconcileCorpus_InsertOnly(entry, art, corpus) ==
  IF art.doc_id \in DOMAIN corpus THEN corpus ELSE Put(corpus, art.doc_id, art)

\* The corpus after the reconciling step.
ReconcileCorpus(entry, art, corpus) ==
  IF SameHash(entry, art) /\ art.doc_id \in DOMAIN corpus THEN corpus
  ELSE Put(corpus, art.doc_id, art)

\* The arguments of the cache.upsert that ends the reconciling step.
SuccessPatch(art, fr) ==
  Row(art.doc_id, art.content_hash, art.updated_at,
      IF fr.set THEN fr.etag ELSE NULL, IF fr.set THEN fr.last_modified ELSE NULL,
      art.scraped_at, "success", NULL)

Reconcile(u, art, fr) ==
  /\ Bump(u, ReconcileStats(cache_entry[u], art))
  /\ existing_articles' = ReconcileCorpus(cache_entry[u], art, existing_articles)
  /\ patch' = [patch EXCEPT ![u] = SuccessPatch(art, fr)]
  /\ pc' = [pc EXCEPT ![u] = "upsert_success"]
  /\ UNCHANGED <<errors, errors_file, semaphore>>

\* From `if not html` to the await of the upsert: extraction and reconciling.
Extract(u, fr) ==
  IF fr.html = NULL \/ fr.html = ""
  THEN /\ Fail(u, "FetchError", "Empty HTML")
       /\ UNCHANGED <<extract_calls, existing_articles>>
  ELSE /\ extract_calls' = [extract_calls EXCEPT ![u] = @ + 1]
       /\ \E x \in ExtractOutcomes(u) :
            IF x.raise # NULL
            THEN Fail(u, x.raise, Message(x.raise)) /\ UNCHANGED existing_articles
            ELSE Reconcile(u, x.article, fr)

OutcomeKind(o) ==
  IF o.raise # NULL THEN o.raise ELSE IF o.result.not_modified THEN "not_modified" ELSE "ok"

\* http_fetcher.fetch returns or raises.
HttpFetch(u) ==
  /\ run_pc = "gather" /\ pc[u] = "http_fetch"
  /\ \E o \in HttpOutcomes :
     /\ http_outcome' = [http_outcome EXCEPT ![u] = OutcomeKind(o)]
     /\ IF o.raise = NULL
       THEN /\ fetch_result' = [fetch_result EXCEPT ![u] = o.result]
            /\ UNCHANGED pw_calls
            /\ IF o.result.not_modified
               THEN /\ Bump(u, {"skipped", "unchanged"})
                    /\ patch' = [patch EXCEPT ![u] =
                                   [NoFields EXCEPT !.status = "success", !.last_scraped = "t1"]]
                    /\ pc' = [pc EXCEPT ![u] = "upsert_304"]
                    /\ UNCHANGED <<errors, errors_file, semaphore, extract_calls,
                                   existing_articles>>
               ELSE Extract(u, o.result)
       ELSE IF o.raise = "BlockedError" /\ UseFallback
       THEN /\ pw_calls' = [pw_calls EXCEPT ![u] = @ + 1]
            /\ pc' = [pc EXCEPT ![u] = "pw_fetch"]
            /\ UNCHANGED <<stats, counted, errors, errors_file, patch, semaphore,
                           extract_calls, existing_articles, fetch_result>>
       ELSE /\ Fail(u, o.raise, Message(o.raise))
            /\ UNCHANGED <<pw_calls, extract_calls, existing_articles, fetch_result>>
  /\ UNCHANGED <<lib_vars, config_vars, cache, cache_entry, run_vars, http_calls, http_arg, upserts>>

\* pw_fetcher.fetch returns or raises (forced-rendered mode, or the fallback).
PwFetch(u) ==
  /\ run_pc = "gather" /\ pc[u] = "pw_fetch"
  /\ \E o \in PwOutcomes :
       IF o.raise = NULL
       THEN /\ fetch_result' = [fetch_result EXCEPT ![u] = o.result]
            /\ Extract(u, o.result)
       ELSE /\ Fail(u, o.raise, Message(o.raise))
            /\ UNCHANGED <<extract_calls, existing_articles, fetch_result>>
  /\ UNCHANGED <<lib_vars, config_vars, cache, cache_entry, run_vars, http_calls, http_arg,
                 http_outcome, pw_calls, upserts>>

\* The diagnostic screenshot of the ValueError clause returns (its own failures
\* are swallowed); the clause goes on to its bookkeeping.
Screenshot(u) ==
  /\ run_pc = "gather" /\ pc[u] = "screenshot"
  /\ RecordFailure(u, "value", patch[u].error)
  /\ UNCHANGED <<lib_vars, config_vars, existing_articles, cache, cache_entry, fetch_result, run_vars,
                 obs_calls_vars>>

\* `await cache.upsert(...)` completes and the task returns, releasing its permit.
FinishUpsert(u, at) ==
  /\ run_pc = "gather" /\ pc[u] = at
  /\ cache' = Upsert(cache, u, patch[u])
  /\ upserts' = [upserts EXCEPT ![u] = @ + 1]
  /\ pc' = [pc EXCEPT ![u] = "done"]
  /\ semaphore' = Release(semaphore)
  /\ cache_entry' = [cache_entry EXCEPT ![u] = <<>>]
  /\ fetch_result' = [fetch_result EXCEPT ![u] = NoResult]
  /\ patch' = [patch EXCEPT ![u] = NoFields]
  /\ UNCHANGED <<lib_vars, config_vars, stats, errors, errors_file, existing_articles, run_vars,
                 http_calls, http_arg, http_outcome, pw_calls, extract_calls, counted>>

UpsertBlocked(u) == FinishUpsert(u, "upsert_blocked")
UpsertNotModified(u) == FinishUpsert(u, "upsert_304")
UpsertSuccess(u) == FinishUpsert(u, "upsert_success")
UpsertFailed(u) == FinishUpsert(u, "upsert_failed")

\* asyncio.gather returns (every task returned) or re-raises the first exception
\* a task let through; the fetchers are closed and so is the cache.
GatherDone ==
  /\ run_pc = "gather"
  /\ (\A u \in Urls : pc[u] = "done") \/ (\E u \in Urls : pc[u] = "raised")
  /\ run_pc' = IF \E u \in Urls : pc[u] = "raised" THEN "raised" ELSE "closed"
  /\ UNCHANGED <<lib_vars, config_vars, shared_vars, task_vars, articles_file, writes, loaded, obs_vars>>

\* write_jsonl(articles_path, existing_articles.values()); return stats
Finish ==
  /\ run_pc = "closed"
  /\ articles_file' = {existing_articles[d] : d \in DOMAIN existing_articles}
  /\ writes' = writes + 1
  /\ run_pc' = "returned"
  /\ UNCHANGED <<lib_vars, config_vars, shared_vars, task_vars, loaded, obs_vars>>

\* ------------------------------------------------------------------- Init
DocOf(u) == IF u = "u1" THEN "d1" ELSE "d2"

\* Rows an earlier run can have left for a URL.
InitialRows(u) ==
  { Row(DocOf(u), "h1", NULL, "e0", "lm0", "t0", "success", NULL) }
  \cup (IF u = "u1" THEN {Row(DocOf(u), "h1", NULL, "e0", "lm0", "t0", "error", "old")} ELSE {})

AllInitialRows == UNION {InitialRows(u) : u \in Urls}

InitialCaches ==
  {c \in UNION {[S -> AllInitialRows] : S \in SUBSET Urls} :
     \A u \in DOMAIN c : c[u] \in InitialRows(u)}

InitialCorpora == {[d \in S |-> LoadedArticle(d)] : S \in {{}, DocIds}}

PriorError == [url |-> "prior", error |-> "old", timestamp |-> "t0"]

ScrapeInit ==
  /\ resume \in BOOLEAN
  /\ obey_robots \in BOOLEAN
  /\ fetch_mode \in FetchModes
  /\ save_screenshots \in (IF fetch_mode = "false" THEN BOOLEAN ELSE {FALSE})
  /\ concurrency \in 1..MaxConcurrency
  /\ robots_allows \in (IF obey_robots THEN [Urls -> BOOLEAN] ELSE {[u \in Urls |-> TRUE]})
  /\ stats = ZeroStats
  /\ errors = <<>>
  /\ errors_file = IF resume THEN <<PriorError>> ELSE <<>>
  /\ existing_articles \in InitialCorpora
  /\ loaded = existing_articles
  /\ articles_file = {existing_articles[d] : d \in DOMAIN existing_articles}
  /\ cache \in InitialCaches
  /\ semaphore = concurrency
  /\ pc = [u \in Urls |-> "start"]
  /\ cache_entry = [u \in Urls |-> <<>>]
  /\ fetch_result = [u \in Urls |-> NoResult]
  /\ patch = [u \in Urls |-> NoFields]
  /\ run_pc = "gather"
  /\ writes = 0
  /\ http_calls = [u \in Urls |-> 0]
  /\ http_arg = [u \in Urls |-> <<>>]
  /\ http_outcome = [u \in Urls |-> "none"]
  /\ pw_calls = [u \in Urls |-> 0]
  /\ extract_calls = [u \in Urls |-> 0]
  /\ upserts = [u \in Urls |-> 0]
  /\ counted = [u \in Urls |-> ZeroStats]

\* No call of chunk_article is under way: scrape_urls never calls the chunker.
ChunkIdle ==
  /\ article = [doc_id |-> "d1", body_markdown |-> <<>>]  \* no article
  /\ chunk_cfg = [min_tokens |-> 1, max_tokens |-> 1]
  /\ chunks = <<>>
  /\ merged = <<>>
  /\ previous = <<>>
  /\ chunk_pc = "idle"

\* No call of Cache.upsert is looked at on its own.
UpsertIdle ==
  /\ table0 = <<>>
  /\ upsert_url = "u1"
  /\ upsert_fields = NoFields
  /\ table = <<>>
  /\ upsert_calls = 0

\* Callers of RateLimiter.wait
Callers == {"c1", "c2", "c3"}

\* RateLimiter(None), nobody calling
LimiterIdle ==
  /\ rate_per_sec = [given |-> FALSE, value |-> 0]
  /\ next_allowed = 0
  /\ lock_holder = NULL
  /\ lock_waiters = <<>>
  /\ now = 0
  /\ wait_pc = [c \in Callers |-> "done"]
  /\ wake_at = [c \in Callers |-> 0]
  /\ called_at = [c \in Callers |-> 0]
  /\ lock_order = <<>>
  /\ returns = <<>>

\* A text is a sequence of characters; updated_at can be None.
Found(title, given, updated, markdown) ==
  [title |-> title, updated_at |-> [given |-> given, value |-> updated],
   body_markdown |-> markdown]

\* No extraction is looked at on its own.
HashIdle ==
  /\ found1 = Found(<<>>, FALSE, <<>>, <<>>)
  /\ found2 = Found(<<>>, FALSE, <<>>, <<>>)
  /\ hash1 = <<>>
  /\ hash2 = <<>>
  /\ hash_pc = "idle"

\* The answers of the collaborators are not fixed beforehand.
NoScript(u) ==
  [http |-> [raise |-> "FetchError", result |-> NoResult],
   pw |-> [raise |-> "FetchError", result |-> NoResult],
   ext |-> [raise |-> "ValueError", article |-> Article(u, "d1", "h1")]]

OrderIdle ==
  /\ script = [u \in Urls |-> NoScript(u)]
  /\ cache0 = <<>>

\* No call of HttpFetcher.fetch is looked at on its own.
FetchIdle ==
  /\ retries = 0 /\ backoff_base = 1 /\ backoff_max = 1
  /\ fetch_arg = <<>>
  /\ attempt = 0
  /\ fetch_pc = "idle"
  /\ response = <<>>
  /\ fetch_ret = <<>>
  /\ fetch_exc = NULL
  /\ waits = 0 /\ gets = 0
  /\ sleeps = <<>>
  /\ attempt_log = <<>>

\* No call of wait_for_any_selector is looked at on its own.
SelectorIdle ==
  /\ selectors = 0
  /\ tasks = <<>>
  /\ completed = <<>>
  /\ awaited = 0
  /\ sel_pc = "idle"
  /\ sel_exit = NULL

FetcherIdle == FetchIdle /\ SelectorIdle

LibIdle == ChunkIdle /\ UpsertIdle /\ LimiterIdle /\ HashIdle /\ FetcherIdle /\ OrderIdle

Init == ScrapeInit /\ LibIdle

Next ==
  \/ \E u \in Urls : Start(u)
  \/ \E u \in Urls : CacheLookup(u)
  \/ \E u \in Urls : HttpFetch(u)
  \/ \E u \in Urls : PwFetch(u)
  \/ \E u \in Urls : Screenshot(u)
  \/ \E u \in Urls : UpsertBlocked(u)
  \/ \E u \in Urls : UpsertNotModified(u)
  \/ \E u \in Urls : UpsertSuccess(u)
  \/ \E u \in Urls : UpsertFailed(u)
  \/ GatherDone
  \/ Finish

Spec == Init /\ [][Next]_vars

\* ------------------------------------------------------------------------
\* Properties of the orchestrator
\* ------------------------------------------------------------------------
Only(fs) == Inc(ZeroStats, fs)

CorpusValues(corpus) == {corpus[d] : d \in DOMAIN corpus}

\* The step of task u in which cache.get returns: the task leaves "cache_get".
LookupStep(u) == pc[u] = "cache_get" /\ pc'[u] # "cache_get"
\* ... and returns at once: the resume skip.
SkipStep(u) == pc[u] = "cache_get" /\ pc'[u] = "done"

RowSuccess(u) == u \in DOMAIN cache /\ cache[u].status = "success"

NoFetchCall(u) ==
  /\ http_calls'[u] = http_calls[u]
  /\ pw_calls'[u] = pw_calls[u]

\* What C1 says about a lookup step, with `corpus` as the corpus the doc_id is
\* looked up in.
ResumeRule(u, corpus) ==
  /\ resume /\ LookupStep(u) =>
       /\ SkipStep(u) <=> (RowSuccess(u) /\ cache[u].doc_id \in DOMAIN corpus)
       /\ SkipStep(u) =>
            /\ NoFetchCall(u)
            /\ stats' = Inc(stats, {"skipped"})
            /\ cache' = cache
            /\ existing_articles' = existing_articles
       /\ ~SkipStep(u) => http_calls'[u] + pw_calls'[u] = http_calls[u] + pw_calls[u] + 1
  \* an extracted article is in the corpus, nothing leaves the corpus, and the
  \* corpus is what is written at the end
  /\ pc[u] # "upsert_success" /\ pc'[u] = "upsert_success" =>
       patch'[u].doc_id \in DOMAIN existing_articles'
  /\ DOMAIN existing_articles \subseteq DOMAIN existing_articles'
  /\ run_pc' = "returned" => articles_file' = CorpusValues(existing_articles')

\* C1 (as stated): in a resume run a URL is skipped without any fetch iff its
\* cache record has status success and the record's doc_id is in the corpus
\* loaded at startup; the skip counts only stats.skipped and changes neither the
\* cache nor the corpus; otherwise the URL is refetched and an extracted article
\* ends in the persisted corpus.
C1_AsStated == [][\A u \in Urls : ResumeRule(u, loaded)]_vars

\* C1 (amended): the same, with the doc_id looked up in the in-memory corpus as
\* it is when the cache lookup returns (the loaded corpus plus the articles the
\* tasks of this run have inserted so far).
C1_ResumeSkip == [][\A u \in Urls : ResumeRule(u, existing_articles)]_vars

ResumeSkipped(u) ==
  /\ pc[u] = "done" /\ counted[u] = Only({"skipped"})
  /\ upserts[u] = 0 /\ http_calls[u] = 0 /\ pw_calls[u] = 0

\* A resume run in which one URL was skipped and another, whose record said
\* success for an article missing from the corpus, was refetched and extracted.
C1_Witness ==
  /\ resume /\ run_pc = "returned"
  /\ \E u \in Urls : ResumeSkipped(u)
  /\ \E u \in Urls : /\ http_arg[u] = <<>> /\ http_calls[u] = 1
                     /\ counted[u].success = 1 /\ DOMAIN loaded = {}

\* C2: with robots enforcement on, a URL its host's policy disallows never
\* reaches HttpFetcher.fetch or PlaywrightFetcher.fetch, counts one skipped and
\* no other counter, and its cache record is upserted with status blocked.
C2_RobotsDisallowed ==
  \A u \in Urls :
    obey_robots /\ ~robots_allows[u] =>
      /\ http_calls[u] = 0 /\ pw_calls[u] = 0 /\ extract_calls[u] = 0
      /\ pc[u] \in {"start", "upsert_blocked", "done"}
      /\ pc[u] = "start" => counted[u] = ZeroStats /\ upserts[u] = 0
      /\ pc[u] = "upsert_blocked" => counted[u] = Only({"skipped"}) /\ upserts[u] = 0
      /\ pc[u] = "done" =>
           /\ counted[u] = Only({"skipped"})
           /\ upserts[u] = 1
           /\ u \in DOMAIN cache /\ cache[u].status = "blocked"

C2_Witness ==
  /\ run_pc = "returned"
  /\ \E u \in Urls : obey_robots /\ ~robots_allows[u] /\ stats.skipped = 1
  /\ \E u \in Urls : counted[u].success = 1

\* The step of task u that ends in the reconciling step.
ReconcileStep(u) == pc[u] \in {"http_fetch", "pw_fetch"} /\ pc'[u] = "upsert_success"

CachedHashEquals(u, h) ==
  u \in DOMAIN cache /\ cache[u].content_hash # NULL /\ cache[u].content_hash = h

\* C3: when the cache record holds a content_hash and the newly extracted
\* article's content_hash equals it, processing the URL adds one to
\* stats.skipped and to stats.unchanged and leaves success, updated and failed
\* as they were.
C3_UnchangedHash ==
  [][\A u \in Urls :
       /\ ReconcileStep(u) /\ CachedHashEquals(u, patch'[u].content_hash) =>
            /\ stats' = Inc(stats, {"skipped", "unchanged"})
            /\ counted'[u] = Only({"skipped", "unchanged"})
       /\ pc[u] = "upsert_success" /\ pc'[u] # pc[u] =>
            pc'[u] = "done" /\ stats' = stats /\ counted' = counted]_vars

C3_Witness ==
  \E u \in Urls :
    /\ pc[u] = "done" /\ extract_calls[u] = 1
    /\ counted[u] = Only({"skipped", "unchanged"})

OldField(u, f) == IF u \in DOMAIN cache THEN cache[u][f] ELSE NULL

\* C4: a 304 from the plain-HTTP fetch adds one to stats.skipped and to
\* stats.unchanged, calls no extractor, leaves the corpus alone and makes one
\* cache upsert after which only status and last_scraped may differ.
C4_NotModified ==
  [][\A u \in Urls :
       /\ pc[u] = "http_fetch" /\ fetch_result'[u].not_modified =>
            /\ stats' = Inc(stats, {"skipped", "unchanged"})
            /\ counted'[u] = Only({"skipped", "unchanged"})
            /\ extract_calls' = extract_calls
            /\ existing_articles' = existing_articles
            /\ cache' = cache /\ upserts'[u] = 0
            /\ pc'[u] = "upsert_304"
       /\ pc[u] = "upsert_304" /\ pc'[u] # pc[u] =>
            /\ pc'[u] = "done"
            /\ stats' = stats /\ counted' = counted
            /\ extract_calls' = extract_calls /\ extract_calls[u] = 0
            /\ existing_articles' = existing_articles
            /\ upserts'[u] = 1
            /\ u \in DOMAIN cache'
            /\ \A f \in Fields \ {"status", "last_scraped"} : cache'[u][f] = OldField(u, f)
            /\ cache'[u].status = "success" /\ cache'[u].last_scraped = "t1"
            /\ \A v \in Urls \ {u} : OldField(v, "status") = IF v \in DOMAIN cache'
                                                           THEN cache'[v].status ELSE NULL]_vars

\* A 304 was answered for a URL whose record held an error message beside its
\* doc_id, hash and validators.
C4_Witness ==
  \E u \in Urls :
    /\ pc[u] = "done" /\ http_outcome[u] = "not_modified"
    /\ cache[u].status = "success" /\ cache[u].error = "old" /\ cache[u].etag = "e0"
    /\ cache[u].last_scraped = "t1"

\* C5: HttpFetcher.fetch is given the cache record only when the record's doc_id
\* is in the corpus, and no cache state otherwise (also in a resume run whose
\* record says success and holds an etag); so a 304 answered to a request that
\* carried validators never counts a URL unchanged whose article is missing.
C5_ConditionalFetch ==
  \A u \in Urls :
    /\ http_arg[u] # <<>> =>
         /\ http_calls[u] = 1
         /\ http_arg[u][1].doc_id # NULL
         /\ http_arg[u][1].doc_id \in DOMAIN existing_articles
    /\ pc[u] = "http_fetch" /\ ~HasCachedArticle(cache_entry[u], existing_articles) =>
         http_arg[u] = <<>>
    /\ http_outcome[u] = "not_modified" /\ ValidatorsSent(http_arg[u]) =>
         /\ counted[u] = Only({"skipped", "unchanged"})
         /\ cache[u].doc_id \in DOMAIN existing_articles

\* A resume run fetches, with no cache state, a URL whose record says success
\* and holds an etag but whose article is not in the corpus.
C5_Witness ==
  \E u \in Urls :
    /\ resume /\ pc[u] = "http_fetch" /\ http_arg[u] = <<>>
    /\ u \in DOMAIN cache
    /\ cache[u].status = "success" /\ cache[u].etag = "e0"
    /\ cache[u].doc_id \notin DOMAIN existing_articles

\* The rendered fetch of u was a fallback and returned a result.
FallbackSucceeded(u) ==
  /\ http_outcome[u] = "BlockedError" /\ pw_calls[u] = 1
  /\ fetch_result[u].set /\ fetch_result[u].used_playwright

\* What C6 says of the strategies, apart from what follows a fallback that
\* succeeded.
FallbackRule(u) ==
  /\ pw_calls[u] <= 1
  /\ fetch_mode = "auto" /\ http_outcome[u] = "BlockedError" =>
       pw_calls[u] = 1 /\ counted[u].auth_required = 0
  /\ fetch_mode = "false" => pw_calls[u] = 0
  /\ fetch_mode # "true" /\ pw_calls[u] > 0 =>
       http_calls[u] = 1 /\ http_outcome[u] = "BlockedError"
  /\ pc[u] = "upsert_success" /\ pw_calls[u] = 1 =>
       fetch_result[u].used_playwright /\ fetch_result[u].html = "html"

\* C6 (as stated): in auto mode a BlockedError of the plain fetch leads to exactly
\* one rendered fetch; if that succeeds, extraction uses the rendered HTML and
\* the URL is counted neither failed nor auth_required; forced-plain mode never
\* calls the rendered fetch and no other failure triggers the fallback.
C6_AsStated ==
  \A u \in Urls :
    /\ FallbackRule(u)
    /\ FallbackSucceeded(u) => counted[u].failed = 0 /\ counted[u].auth_required = 0

\* C6 (amended): as stated, except that after a fallback that succeeded the URL
\* is never counted auth_required, and is counted failed only when the rendered
\* HTML is empty or the extractor, run on the rendered HTML, raises.
C6_Fallback ==
  \A u \in Urls :
    /\ FallbackRule(u)
    /\ FallbackSucceeded(u) =>
         /\ counted[u].auth_required = 0
         /\ counted[u].failed = 1 => fetch_result[u].html = "" \/ extract_calls[u] = 1
         /\ pc[u] = "upsert_success" => counted[u].failed = 0

C6_Witness ==
  \E u \in Urls :
    /\ fetch_mode = "auto" /\ FallbackSucceeded(u) /\ pc[u] = "upsert_success"
    /\ counted[u].success = 1

\* C9: an exception of a fetch strategy or of the extractor is caught inside the
\* URL's task: no task lets one through, scrape_urls does not raise, and when it
\* returns every URL has reached exactly one of success, skipped, failed.
C9_ErrorsContained ==
  /\ run_pc # "raised"
  /\ \A u \in Urls :
       /\ pc[u] # "raised"
       /\ pc[u] = "done" =>
            counted[u].success + counted[u].skipped + counted[u].failed = 1
       /\ run_pc \in {"closed", "returned"} => pc[u] = "done"
  /\ run_pc = "gather" /\ (\E u \in Urls : pc[u] # "done") => ENABLED Next

\* One URL failed on an exception that is neither ValueError nor FetchError and
\* the other one still succeeded.
C9_Witness ==
  /\ run_pc = "returned"
  /\ \E u \in Urls : cache[u].error = Message("Exception") /\ counted[u].failed = 1
  /\ \E u \in Urls : counted[u].success = 1

\* ------------------------------------------------------------------------
\* Termination
\* ------------------------------------------------------------------------
\* The steps of the task of one URL.
TaskStep(u) ==
  \/ Start(u) \/ CacheLookup(u) \/ HttpFetch(u) \/ PwFetch(u) \/ Screenshot(u)
  \/ UpsertBlocked(u) \/ UpsertNotModified(u) \/ UpsertSuccess(u) \/ UpsertFailed(u)

\* The event loop runs every task that can run, every awaited call (a fetch
\* attempt has a timeout) returns or raises, and scrape_urls itself goes on.
\* Which step a task takes next depends on the cache rows and the corpus only
\* through the resume skip, so the runs are followed from the startup states in
\* which every URL has a cache row and every article is in the corpus (with
\* resume the tasks skip, without it they go through every other path).
FairInit == Init /\ DOMAIN cache = Urls /\ DOMAIN existing_articles = DocIds

FairSpec ==
  /\ FairInit /\ [][Next]_vars
  /\ \A u \in Urls : WF_vars(TaskStep(u))
  /\ WF_vars(GatherDone)
  /\ WF_vars(Finish)

\* C10: under fair scheduling every URL task ends, then the corpus is written
\* once, in full, and the stats are returned, whatever succeeded or failed.
\* The tasks that hold a permit: they entered `async with semaphore` and have not
\* left it.
Active == {u \in Urls : pc[u] \notin {"start", "done", "raised"}}

\* C11: at most `concurrency` tasks hold a permit at any moment, every exit path
\* of a task gives its permit back, and a task waiting for a permit gets one.
C11_Permits ==
  /\ [](Cardinality(Active) <= concurrency
         /\ semaphore = concurrency - Cardinality(Active))
  /\ \A u \in Urls : (pc[u] = "start") ~> (pc[u] # "start")

\* With one permit, a task is past its acquire where the other has returned: it
\* was given the permit the other one released.
C11_Witness ==
  /\ concurrency = 1
  /\ \E u, v \in Urls : u # v /\ pc[v] = "done" /\ u \in Active

C10_RunCompletes ==
  <>[](/\ run_pc = "returned"
       /\ \A u \in Urls : pc[u] = "done"
       /\ writes = 1
       /\ articles_file = CorpusValues(existing_articles))

\* The run returned although every URL failed.
C10_Witness ==
  /\ run_pc = "returned" /\ writes = 1
  /\ stats.failed = Cardinality(Urls)
  /\ articles_file = CorpusValues(loaded)

\* The corpus file holds the in-memory corpus, one record per doc_id, and every
\* doc_id loaded at startup is in it.
Persisted ==
  /\ articles_file = CorpusValues(existing_articles)
  /\ \A a, b \in articles_file : a.doc_id = b.doc_id => a = b
  /\ \A d \in DOMAIN loaded : \E a \in articles_file : a.doc_id = d

\* What a step does to the corpus: nothing leaves it, the article a task has
\* just extracted is in it, and a record changes only into the record that a
\* task of this run has just extracted with the same doc_id.
CorpusStep ==
  /\ DOMAIN existing_articles \subseteq DOMAIN existing_articles'
  /\ \A d \in DOMAIN existing_articles' : existing_articles'[d].doc_id = d
  /\ \A u \in Urls : ReconcileStep(u) => patch'[u].doc_id \in DOMAIN existing_articles'
  /\ \A d \in DOMAIN existing_articles :
       existing_articles'[d] # existing_articles[d] =>
         \E u \in Urls : /\ ReconcileStep(u) /\ patch'[u].doc_id = d
                          /\ existing_articles'[d].url = u
                          /\ existing_articles'[d].scraped_at = patch'[u].last_scraped

\* C14: no step removes an article from the corpus, an extracted article enters
\* it, a loaded record is replaced only by a record extracted in this run with
\* the same doc_id, and when scrape_urls has finished the corpus file holds that
\* corpus with exactly one record per doc_id.
C14_CorpusKept == [][CorpusStep /\ (run_pc' = "returned" => Persisted')]_vars

\* The run returned having replaced one loaded record and kept another.
C14_Witness ==
  /\ run_pc = "returned" /\ DOMAIN loaded = DocIds /\ Persisted
  /\ \E d \in DocIds : existing_articles[d] # loaded[d]
  /\ \E d \in DocIds : existing_articles[d] = loaded[d]

\* The counters a new capture of u adds to: updated only beside a prior hash.
NewCapture(u) ==
  IF OldField(u, "content_hash") # NULL THEN {"success", "updated"} ELSE {"success"}

\* C20: when the extracted article's content_hash differs from the cached hash
\* of the URL, or none is cached, the corpus entry of the article's doc_id
\* becomes the new article, stats.success goes up by one, stats.updated goes up
\* by one exactly when the cache record held a hash, and skipped and unchanged
\* stay as they were.
C20_ChangedHash ==
  [][\A u \in Urls :
       ReconcileStep(u) /\ ~CachedHashEquals(u, patch'[u].content_hash) =>
         LET d == patch'[u].doc_id
         IN  /\ d \in DOMAIN existing_articles'
             /\ existing_articles'[d].doc_id = d
             /\ existing_articles'[d].url = u
             /\ existing_articles'[d].content_hash = patch'[u].content_hash
             /\ existing_articles'[d].scraped_at = patch'[u].last_scraped
             /\ \A x \in DOMAIN existing_articles \ {d} :
                  existing_articles'[x] = existing_articles[x]
             /\ stats' = Inc(stats, NewCapture(u))
             /\ counted'[u] = Only(NewCapture(u))]_vars

\* Both kinds happened in one run: a changed page replaced a loaded record of
\* the corpus, and a page with no cached hash was captured for the first time.
C20_Witness ==
  /\ \E u \in Urls : /\ pc[u] = "done" /\ counted[u] = Only({"success", "updated"})
                       /\ cache[u].doc_id \in DOMAIN loaded
                       /\ existing_articles[cache[u].doc_id] # loaded[cache[u].doc_id]
  /\ \E u \in Urls : pc[u] = "done" /\ counted[u] = Only({"success"})

\* C21: when the extracted article's content_hash equals the cached hash of the
\* URL, the article enters the corpus if its doc_id is absent from it and the
\* corpus stays as it is if the doc_id is present; either way only skipped and
\* unchanged go up, success and updated do not.
C21_Backfill ==
  [][\A u \in Urls :
       ReconcileStep(u) /\ CachedHashEquals(u, patch'[u].content_hash) =>
         LET d == patch'[u].doc_id
         IN  /\ d \in DOMAIN existing_articles => existing_articles' = existing_articles
             /\ d \notin DOMAIN existing_articles =>
                  /\ DOMAIN existing_articles' = DOMAIN existing_articles \cup {d}
                  /\ existing_articles'[d].doc_id = d
                  /\ existing_articles'[d].url = u
                  /\ existing_articles'[d].content_hash = patch'[u].content_hash
                  /\ \A x \in DOMAIN existing_articles :
                       existing_articles'[x] = existing_articles[x]
             /\ stats' = Inc(stats, {"skipped", "unchanged"})
             /\ stats'.success = stats.success /\ stats'.updated = stats.updated
             /\ counted'[u] = Only({"skipped", "unchanged"})]_vars

\* Both cases in one run that started with an empty corpus: one URL backfilled
\* its article, the other then extracted the same doc_id with its cached hash
\* and left the backfilled record alone.
C21_Witness ==
  /\ DOMAIN loaded = {} /\ DOMAIN existing_articles = {"d1"}
  /\ stats.success = 0 /\ stats.updated = 0
  /\ \A u \in Urls : /\ pc[u] = "done" /\ extract_calls[u] = 1
                       /\ counted[u] = Only({"skipped", "unchanged"})
  /\ \E u \in Urls : existing_articles["d1"].url = u

\* The step of task u in which the upsert that ends the reconciling step
\* completes.
SuccessUpsertStep(u) == pc[u] = "upsert_success" /\ pc'[u] = "done"

\* C22: once a URL has completed the reconciling step its cache record has
\* status success, the doc_id and the content_hash of the article just
\* extracted, and no error message, also when the record held status error and
\* a message before.
C22_SuccessRecord ==
  [][\A u \in Urls :
       SuccessUpsertStep(u) =>
         /\ u \in DOMAIN cache'
         /\ cache'[u].status = "success"
         /\ cache'[u].doc_id = patch[u].doc_id
         /\ cache'[u].content_hash = patch[u].content_hash
         /\ cache'[u].error = NULL]_vars

\* A field of the cache record of u, None when there is no record.
FieldOf(c, u, f) == IF u \in DOMAIN c THEN c[u][f] ELSE NULL

\* C28: the etag and last_modified of a cache record are those of the response
\* that produced the record's content_hash, absent when that response carried
\* none: the upsert that stores a hash stores that response's validators, and
\* no other step changes the validators or the hash.
C28_Validators ==
  [][\A u \in Urls :
       /\ SuccessUpsertStep(u) =>
            /\ cache'[u].content_hash = patch[u].content_hash
            /\ cache'[u].etag = patch[u].etag
            /\ cache'[u].last_modified = patch[u].last_modified
       /\ ~SuccessUpsertStep(u) =>
            \A f \in {"etag", "last_modified", "content_hash"} :
              FieldOf(cache', u, f) = FieldOf(cache, u, f)]_vars

\* The outcome counters: every URL adds to exactly one of them.
Outcome(s) == s.success + s.failed + s.skipped

\* C26: when scrape_urls returns, every URL of the list has added one to
\* exactly one of success, failed, skipped, so the three sum to the number of
\* URLs; unchanged <= skipped, updated <= success, auth_required <= failed, and
\* there are as many captured error records as failed URLs.
C26_StatsAddUp ==
  /\ \A f \in DOMAIN ZeroStats :
       stats[f] = Cardinality({u \in Urls : counted[u][f] = 1})
  /\ \A u \in Urls : Outcome(counted[u]) <= 1 /\ \A f \in DOMAIN ZeroStats : counted[u][f] <= 1
  /\ stats.unchanged <= stats.skipped
  /\ stats.updated <= stats.success
  /\ stats.auth_required <= stats.failed
  /\ Len(errors) = stats.failed
  /\ run_pc = "returned" =>
       /\ \A u \in Urls : Outcome(counted[u]) = 1
       /\ Outcome(stats) = Cardinality(Urls)

\* The run returned with one URL skipped without being unchanged and the other
\* failed without being auth_required: the inequalities are strict.
C26_Witness ==
  /\ run_pc = "returned"
  /\ stats.skipped = 1 /\ stats.unchanged = 0
  /\ stats.failed = 1 /\ stats.auth_required = 0 /\ Len(errors) = 1

\* The records about u in a sequence of error records.
ErrorsOf(log, u) == {i \in 1..Len(log) : log[i].url = u}

\* The task of u ended in the BlockedError clause: the plain-HTTP fetch was
\* blocked and no rendered fetch followed.
EndedBlocked(u) == http_outcome[u] = "BlockedError" /\ pw_calls[u] = 0

\* What str(exc) can be for an exception that is no BlockedError.
OtherMessages ==
  {Message("ValueError"), Message("FetchError"), Message("Exception"), "Empty HTML",
   "Playwright unavailable"}

\* C19: a URL that ended failed is counted in failed once, has one record in
\* stats.errors and one in the error log, and got one cache upsert; a
\* BlockedError gives status auth_required and counts auth_required, any other
\* exception gives status error with its message and does not count it.  A URL
\* that did not fail has no error record.
C19_FailureAccounting ==
  \A u \in Urls :
    /\ counted[u].failed = 0 => ErrorsOf(errors, u) = {}
    /\ (pc[u] = "done" /\ counted[u].failed > 0) =>
         /\ upserts[u] = 1
         /\ Cardinality(ErrorsOf(errors, u)) = 1
         /\ Cardinality(ErrorsOf(errors_file, u)) = 1
         /\ \E i \in ErrorsOf(errors, u) :
              /\ errors[i] \in {errors_file[j] : j \in ErrorsOf(errors_file, u)}
              /\ cache[u].error = errors[i].error
              /\ IF EndedBlocked(u)
                   THEN /\ counted[u] = Only({"failed", "auth_required"})
                        /\ cache[u].status = "auth_required"
                        /\ errors[i].error = "auth_required"
                   ELSE /\ counted[u] = Only({"failed"})
                        /\ cache[u].status = "error"
                        /\ errors[i].error \in OtherMessages

\* One URL failed on a BlockedError, the other on the extractor's ValueError.
C19_Witness ==
  /\ \A u \in Urls : pc[u] = "done" /\ counted[u].failed = 1
  /\ Len(errors) = 2 /\ stats.failed = 2 /\ stats.auth_required = 1
  /\ \E u \in Urls : cache[u].status = "auth_required"
  /\ \E u \in Urls : cache[u].status = "error" /\ cache[u].error = Message("ValueError")

\* No rendered fallback can follow a BlockedError of the plain fetch.
NoFallback == fetch_mode = "false" \/ ~pw_fetcher

\* C27: a URL counts auth_required, and its cache status becomes auth_required,
\* exactly when the BlockedError of the plain-HTTP fetch propagated with no
\* rendered fallback attempted (forced-plain mode or no rendered fetcher); a
\* blocked plain fetch whose fallback was attempted, and any failure in
\* forced-rendered mode, is recorded with status error and counted only failed.
C27_AuthRequired ==
  \A u \in Urls :
    /\ counted[u].auth_required = 1 <=> EndedBlocked(u)
    /\ EndedBlocked(u) <=> (http_outcome[u] = "BlockedError" /\ NoFallback)
    /\ EndedBlocked(u) => counted[u] = Only({"failed", "auth_required"})
    /\ pc[u] = "done" /\ u \in DOMAIN cache =>
         (cache[u].status = "auth_required" <=> EndedBlocked(u))
    /\ (pw_calls[u] = 1 /\ counted[u].failed = 1) =>
         /\ fetch_mode = "true" \/ http_outcome[u] = "BlockedError"
         /\ counted[u] = Only({"failed"})
         /\ pc[u] = "done" => cache[u].status = "error"

\* In auto mode the plain fetch of a URL was blocked and the rendered fallback
\* failed: the URL ended with status error, counted failed only.
C27_Witness ==
  \E u \in Urls :
    /\ fetch_mode = "auto" /\ http_outcome[u] = "BlockedError" /\ pw_calls[u] = 1
    /\ pc[u] = "done" /\ extract_calls[u] = 0
    /\ cache[u].status = "error" /\ cache[u].error = Message("FetchError")
    /\ counted[u] = Only({"failed"})

\* The plain-HTTP fetch of u returned a page and the extractor, called on it,
\* did not fail.
PlainFetchExtracted(u) ==
  /\ pc[u] = "done" /\ http_outcome[u] = "ok"
  /\ extract_calls[u] = 1 /\ counted[u].failed = 0

\* C15: in forced-plain mode with screenshots off no PlaywrightFetcher exists,
\* no URL is ever fetched through it, and a URL whose plain-HTTP fetch and
\* extraction succeed ends with cache status success, counted as a success or
\* as unchanged.
C15_ForcedPlain ==
  (fetch_mode = "false" /\ ~save_screenshots) =>
    /\ ~pw_fetcher
    /\ \A u \in Urls :
         /\ pw_calls[u] = 0 /\ pc[u] \notin {"pw_fetch", "screenshot"}
         /\ PlainFetchExtracted(u) =>
              /\ http_calls[u] = 1
              /\ u \in DOMAIN cache /\ cache[u].status = "success"
              /\ cache[u].doc_id \in DOMAIN existing_articles
              /\ counted[u] \in {Only({"success"}), Only({"success", "updated"}),
                                 Only({"skipped", "unchanged"})}

\* Forced-plain mode, screenshots off: both URLs were fetched over plain HTTP
\* and extracted, one of them a first capture.
C15_Witness ==
  /\ fetch_mode = "false" /\ ~save_screenshots
  /\ \A u \in Urls : PlainFetchExtracted(u) /\ counted[u].success = 1
  /\ \E u \in Urls : counted[u].updated = 0

\* ------------------------------------------------------------------------
\* The chunker (chunker.py)
\* ------------------------------------------------------------------------
\* A body is modelled by its structure: the sequence of its units, a unit being
\* a sentence of a paragraph or an item of a list, each with the number of its
\* characters and with what separates it from the unit before: a heading line
\* (it opens a section), a blank line (it opens a block) or one white-space
\* character (it continues the block).  The body is the extractor's normalised
\* markdown, so white-space never runs longer than that.
MaxUnits == 3
MaxTokensLimit == 5

UnitLens == {5, 20}
Breaks == {"section", "block", "unit"}
Kinds == {"text", "list"}

Units == [brk : Breaks, kind : Kinds, len : UnitLens]

WellFormedBody(b) ==
  /\ Len(b) > 0 => b[1].brk = "section"
  /\ \A i \in 2..Len(b) : b[i].brk = "unit" => b[i].kind = b[i - 1].kind

Bodies ==
  {b \in UNION {[1..n -> Units] : n \in 0..MaxUnits} : WellFormedBody(b)}

\* An article record as the chunker reads it.
ArticleRecord(doc_id, body) ==
  [doc_id |-> doc_id, url |-> "u1", title |-> "title", updated_at |-> "upd",
   breadcrumbs |-> <<"crumb">>, tags |-> <<"tag">>, source |-> "support",
   source_host |-> "host", scraped_at |-> "t1", content_hash |-> "h1",
   body_markdown |-> body]

Articles == {ArticleRecord(d, b) : d \in DocIds, b \in Bodies}

ChunkConfigs ==
  {c \in [min_tokens : 1..MaxTokensLimit, max_tokens : 1..MaxTokensLimit] :
     c.min_tokens <= c.max_tokens}

\* A text is the sequence of the units it is made of, each with the separator
\* that precedes it in the text.
SepLen(sep) ==
  CASE sep = "" -> 0
    [] sep = " " -> 1
    [] sep = "\n" -> 1
    [] sep = "\n\n" -> 2

UnitText(b, i) == <<[sep |-> "", len |-> b[i].len, id |-> i]>>

RECURSIVE TextLen(_)
TextLen(t) ==
  IF t = <<>> THEN 0 ELSE SepLen(Head(t).sep) + Head(t).len + TextLen(Tail(t))

\* utils.estimate_tokens: max(1, int(len(text) / 4)), 0 for the empty text
estimate_tokens(t) ==
  LET n == TextLen(t)
  IN  IF n = 0 THEN 0 ELSE IF n \div 4 > 1 THEN n \div 4 ELSE 1

\* sep.join(texts).strip(), for texts that are stripped and not empty
RECURSIVE Join(_, _)
Join(texts, sep) ==
  IF texts = <<>> THEN <<>>
  ELSE IF Len(texts) = 1 THEN texts[1]
  ELSE LET init == Join(SubSeq(texts, 1, Len(texts) - 1), sep)
           last == texts[Len(texts)]
       IN  init \o <<[last[1] EXCEPT !.sep = sep]>> \o Tail(last)

\* Cuts the positions lo..hi of the body into the runs that start at lo and at
\* every later unit whose break is in `at`; a run is a pair <<first, last>>.
RECURSIVE Runs(_, _, _, _)
Runs(b, lo, hi, at) ==
  IF lo > hi THEN <<>>
  ELSE LET later == {i \in (lo + 1)..hi : b[i].brk \in at}
           last == IF later = {} THEN hi
                   ELSE (CHOOSE i \in later : \A j \in later : i <= j) - 1
       IN  <<<<lo, last>>>> \o Runs(b, last + 1, hi, at)

\* _parse_sections: the runs of units between heading lines
parse_sections(b) == Runs(b, 1, Len(b), {"section"})

\* _split_blocks: the runs of units of a section between blank lines
split_blocks(b, section) == Runs(b, section[1], section[2], {"section", "block"})

\* The sentences or the items of a block, in order.
Pieces(b, block) == [k \in 1..(block[2] - block[1] + 1) |-> UnitText(b, block[1] + k - 1)]

\* The text of a block as it stands in the body.
BlockText(b, block) ==
  Join(Pieces(b, block), IF b[block[1]].kind = "list" THEN "\n" ELSE " ")

is_list_block(b, block) == b[block[1]].kind = "list"

\* The loop of _split_long_text and of _split_list_block: the pieces are packed
\* greedily, a piece opens a new chunk when adding it would exceed max_tokens.
RECURSIVE Pack(_, _, _, _, _)
Pack(pieces, current, out, sep, max_tokens) ==
  IF pieces = <<>>
    THEN IF current # <<>> THEN Append(out, Join(current, sep)) ELSE out
  ELSE LET tentative == Join(Append(current, Head(pieces)), sep)
       IN  IF estimate_tokens(tentative) > max_tokens /\ current # <<>>
             THEN Pack(Tail(pieces), <<Head(pieces)>>,
                       Append(out, Join(current, sep)), sep, max_tokens)
             ELSE Pack(Tail(pieces), Append(current, Head(pieces)), out, sep, max_tokens)

split_long_text(b, block, max_tokens) == Pack(Pieces(b, block), <<>>, <<>>, " ", max_tokens)

split_list_block(b, block, max_tokens) == Pack(Pieces(b, block), <<>>, <<>>, "\n", max_tokens)

\* _build_chunk; the section is kept by the position of its first unit
\* (it stands for the heading the section is under).
build_chunk(a, section, text, index) ==
  [chunk_id |-> <<a.doc_id, index>>, doc_id |-> a.doc_id, url |-> a.url, title |-> a.title,
   heading_path |-> <<a.title, section[1]>>, section |-> section[1],
   text |-> text, tokens_estimate |-> estimate_tokens(text),
   updated_at |-> a.updated_at, breadcrumbs |-> a.breadcrumbs, tags |-> a.tags,
   scraped_at |-> a.scraped_at, content_hash |-> a.content_hash]

\* chunks.append(_build_chunk(article, section, "\n\n".join(current_lines), chunk_index))
\* chunk_index is the number of chunks appended so far.
Flush(a, section, current_lines, cs) ==
  IF current_lines = <<>> THEN cs
  ELSE Append(cs, build_chunk(a, section, Join(current_lines, "\n\n"), Len(cs)))

\* for sub in sub_blocks: flush current_lines, then append the sub-block
RECURSIVE EmitSubs(_, _, _, _, _)
EmitSubs(a, section, subs, current_lines, cs) ==
  IF subs = <<>> THEN [current_lines |-> current_lines, chunks |-> cs]
  ELSE LET flushed == Flush(a, section, current_lines, cs)
       IN  EmitSubs(a, section, Tail(subs), <<>>,
                    Append(flushed, build_chunk(a, section, Head(subs), Len(flushed))))

\* for block in blocks: ... ; if current_lines: flush
RECURSIVE BlockLoop(_, _, _, _, _, _)
BlockLoop(a, section, blocks, current_lines, cs, max_tokens) ==
  IF blocks = <<>> THEN Flush(a, section, current_lines, cs)
  ELSE
    LET b == a.body_markdown
        block == Head(blocks)
        text == BlockText(b, block)
    IN  IF estimate_tokens(text) > max_tokens
          THEN LET sub_blocks == IF is_list_block(b, block)
                                   THEN split_list_block(b, block, max_tokens)
                                   ELSE split_long_text(b, block, max_tokens)
                   after == EmitSubs(a, section, sub_blocks, current_lines, cs)
               IN  BlockLoop(a, section, Tail(blocks), after.current_lines, after.chunks,
                             max_tokens)
          ELSE LET tentative == Join(Append(current_lines, text), "\n\n")
               IN  IF estimate_tokens(tentative) > max_tokens /\ current_lines # <<>>
                     THEN BlockLoop(a, section, Tail(blocks), <<text>>,
                                    Flush(a, section, current_lines, cs), max_tokens)
                     ELSE BlockLoop(a, section, Tail(blocks), Append(current_lines, text),
                                    cs, max_tokens)

\* for section in sections: ...
RECURSIVE SectionLoop(_, _, _, _)
SectionLoop(a, sections, cs, max_tokens) ==
  IF sections = <<>> THEN cs
  ELSE SectionLoop(a, Tail(sections),
                   BlockLoop(a, Head(sections), split_blocks(a.body_markdown, Head(sections)),
                             <<>>, cs, max_tokens),
                   max_tokens)

\* The list `chunks` when the loop over the sections ends.
FirstPass(a, cfg) ==
  SectionLoop(a, parse_sections(a.body_markdown), <<>>, cfg.max_tokens)

MergeLoop_None(cs, buffer, out, min_tokens) == cs

\* "Merge tiny chunks with neighbors": buffer is <<>> for None
RECURSIVE MergeLoop(_, _, _, _)
MergeLoop(cs, buffer, out, min_tokens) ==
  IF cs = <<>> THEN out \o buffer
  ELSE IF buffer = <<>> THEN MergeLoop(Tail(cs), <<Head(cs)>>, out, min_tokens)
  ELSE IF Head(cs).tokens_estimate < min_tokens
    THEN LET text == Join(<<buffer[1].text, Head(cs).text>>, "\n\n")
         IN  MergeLoop(Tail(cs),
                       <<[buffer[1] EXCEPT !.text = text,
                                           !.tokens_estimate = estimate_tokens(text)]>>,
                       out, min_tokens)
    ELSE MergeLoop(Tail(cs), <<Head(cs)>>, out \o buffer, min_tokens)

Reindex_Skipped(doc_id, ms) == ms

\* "Re-index chunk ids"
Reindex(doc_id, ms) == [i \in 1..Len(ms) |-> [ms[i] EXCEPT !.chunk_id = <<doc_id, i - 1>>]]

InitialBuffer_Kept == IF merged = <<>> THEN <<>> ELSE <<merged[Len(merged)]>>

\* buffer = None
InitialBuffer == <<>>

\* chunk_article(article, chunk_cfg), and the same call once more: `previous` is
\* what the call before returned.
chunk_article ==
  /\ chunk_pc \in {"called", "returned"}
  /\ chunks' = FirstPass(article, chunk_cfg)
  /\ merged' = Reindex(article.doc_id,
                       MergeLoop(chunks', InitialBuffer, <<>>, chunk_cfg.min_tokens))
  /\ previous' = merged
  /\ chunk_pc' = IF chunk_pc = "called" THEN "returned" ELSE "returned_twice"
  /\ UNCHANGED <<scrape_vars, order_vars, fetcher_vars, article, chunk_cfg, upsert_vars, limiter_vars, hash_vars>>

\* The orchestrator's variables while the chunker is looked at alone.
ScrapeIdle ==
  /\ ScrapeInit /\ OrderIdle
  /\ ~resume /\ ~obey_robots /\ fetch_mode = "false" /\ ~save_screenshots
  /\ concurrency = 1
  /\ DOMAIN cache = {} /\ DOMAIN existing_articles = {}

InitChunk ==
  /\ ScrapeIdle /\ UpsertIdle /\ LimiterIdle /\ HashIdle /\ FetcherIdle
  /\ article \in Articles
  /\ chunk_cfg \in ChunkConfigs
  /\ chunks = <<>>
  /\ merged = <<>>
  /\ previous = <<>>
  /\ chunk_pc = "called"

NextChunk == chunk_article

SpecChunk == InitChunk /\ [][NextChunk]_vars

\* ------------------------------------------------------------------------
\* Cache.upsert on its own (cache.py)
\* ------------------------------------------------------------------------
MaxUpsertCalls == 2

\* The keyword arguments of a call: None for a field that is not passed or is
\* passed as None (fields.get), a value otherwise.
UpsertFields == [Fields -> {NULL, "new"}]

\* The rows the table can hold: every column but url is nullable.
StoredRows == [Fields -> {NULL, "old"}]

OtherUrl(u) == CHOOSE x \in Urls : x # u

\* The table before the call: a row for the other URL, and a row or none for
\* the URL of the call.
Tables(u) ==
  {[x \in {OtherUrl(u)} |-> [f \in Fields |-> "old"]]}
  \cup {[x \in Urls |-> IF x = u THEN r ELSE [f \in Fields |-> "old"]] : r \in StoredRows}

\* await cache.upsert(url, **fields), the same call once more
upsert ==
  /\ table0 # <<>>  \* a table is under consideration
  /\ upsert_calls < MaxUpsertCalls
  /\ table' = Upsert(table, upsert_url, upsert_fields)
  /\ upsert_calls' = upsert_calls + 1
  /\ UNCHANGED <<scrape_vars, order_vars, fetcher_vars, chunk_vars, limiter_vars, hash_vars, table0, upsert_url,
                 upsert_fields>>

InitCache ==
  /\ ScrapeIdle /\ ChunkIdle /\ LimiterIdle /\ HashIdle /\ FetcherIdle
  /\ upsert_url \in Urls
  /\ table0 \in Tables(upsert_url)
  /\ upsert_fields \in UpsertFields
  /\ table = table0
  /\ upsert_calls = 0

NextCache == upsert

SpecCache == InitCache /\ [][NextCache]_vars

\* ------------------------------------------------------------------------
\* RateLimiter (rate_limiter.py)
\* ------------------------------------------------------------------------
\* Time is counted in ticks of half a second, so that the rates 1 and 2 per
\* second have the intervals 2 and 1; the clock runs up to MaxTime.
MaxTime == 5

\* rate_per_sec: None, or a number of permits per second
Rates ==
  {[given |-> FALSE, value |-> 0]} \cup {[given |-> TRUE, value |-> v] : v \in {-1, 0, 1, 2}}

\* not self.rate_per_sec or self.rate_per_sec <= 0
Unlimited(rate) == ~rate.given \/ rate.value <= 0

\* interval = 1.0 / self.rate_per_sec
Interval(rate) == 2 \div rate.value

jitter_delay_Early(base) == {base - 1, base}

\* utils.jitter_delay: base + random.uniform(0, base * 0.1), never under base;
\* the loop may resume the sleeper later still (see Wake).
jitter_delay(base) == {base, base + 1}

\* The caller leaves wait(): the call is recorded with the instant it returns at.
Return(c) ==
  /\ wait_pc' = [wait_pc EXCEPT ![c] = "done"]
  /\ returns' = Append(returns, [caller |-> c, at |-> now])

\* Leaving `async with self._lock`: the lock goes to the first waiter, if any,
\* which resumes in LockGranted.
ReleaseLock ==
  /\ lock_holder' = IF lock_waiters = <<>> THEN NULL ELSE Head(lock_waiters)
  /\ lock_waiters' = IF lock_waiters = <<>> THEN <<>> ELSE Tail(lock_waiters)

\* Lines 19-23, entered by caller c holding the lock: sleep if the next allowed
\* instant is ahead, else advance it and return.
Locked(c) ==
  /\ lock_order' = Append(lock_order, c)
  /\ IF now < next_allowed
       THEN /\ \E d \in jitter_delay(next_allowed - now) :
                 wake_at' = [wake_at EXCEPT ![c] = now + d]
            /\ wait_pc' = [wait_pc EXCEPT ![c] = "sleep"]
            /\ UNCHANGED <<next_allowed, returns>>
       ELSE /\ next_allowed' = now + Interval(rate_per_sec)
            /\ Return(c)
            /\ UNCHANGED wake_at

\* A caller enters wait().
Call(c) ==
  /\ wait_pc[c] = "idle"
  /\ called_at' = [called_at EXCEPT ![c] = now]
  /\ IF Unlimited(rate_per_sec)
       THEN /\ Return(c)
            /\ UNCHANGED <<next_allowed, lock_holder, lock_waiters, wake_at, lock_order>>
       ELSE IF lock_holder = NULL
       THEN /\ Locked(c)
            /\ IF now < next_allowed
                 THEN lock_holder' = c /\ UNCHANGED lock_waiters
                 ELSE UNCHANGED <<lock_holder, lock_waiters>>
       ELSE /\ lock_waiters' = Append(lock_waiters, c)
            /\ wait_pc' = [wait_pc EXCEPT ![c] = "lock"]
            /\ UNCHANGED <<next_allowed, lock_holder, wake_at, lock_order, returns>>
  /\ UNCHANGED <<scrape_vars, order_vars, fetcher_vars, chunk_vars, upsert_vars, hash_vars, rate_per_sec, now>>

\* A caller that waited for the lock resumes with it.
LockGranted(c) ==
  /\ wait_pc[c] = "lock" /\ lock_holder = c
  /\ Locked(c)
  /\ IF now < next_allowed THEN UNCHANGED <<lock_holder, lock_waiters>> ELSE ReleaseLock
  /\ UNCHANGED <<scrape_vars, order_vars, fetcher_vars, chunk_vars, upsert_vars, hash_vars, rate_per_sec, now, called_at>>

\* asyncio.sleep returns, no earlier than asked; line 23 and the return follow.
Wake(c) ==
  /\ wait_pc[c] = "sleep" /\ now >= wake_at[c]
  /\ next_allowed' = now + Interval(rate_per_sec)
  /\ ReleaseLock
  /\ Return(c)
  /\ UNCHANGED <<scrape_vars, order_vars, fetcher_vars, chunk_vars, upsert_vars, hash_vars, rate_per_sec, now, wake_at,
                 called_at, lock_order>>

\* The monotonic clock advances.
Tick ==
  /\ \E c \in Callers : wait_pc[c] # "done"
  /\ now < MaxTime
  /\ now' = now + 1
  /\ UNCHANGED <<scrape_vars, order_vars, fetcher_vars, chunk_vars, upsert_vars, hash_vars, rate_per_sec, next_allowed,
                 lock_holder, lock_waiters, wait_pc, wake_at, called_at, lock_order, returns>>

InitLimiter ==
  /\ ScrapeIdle /\ ChunkIdle /\ UpsertIdle /\ HashIdle /\ FetcherIdle
  /\ rate_per_sec \in Rates
  /\ next_allowed = 0
  /\ lock_holder = NULL
  /\ lock_waiters = <<>>
  /\ now = 0
  /\ wait_pc = [c \in Callers |-> "idle"]
  /\ wake_at = [c \in Callers |-> 0]
  /\ called_at = [c \in Callers |-> 0]
  /\ lock_order = <<>>
  /\ returns = <<>>

NextLimiter ==
  \/ \E c \in Callers : Call(c)
  \/ \E c \in Callers : LockGranted(c)
  \/ \E c \in Callers : Wake(c)
  \/ Tick

SpecLimiter == InitLimiter /\ [][NextLimiter]_vars

\* ------------------------------------------------------------------------
\* content_hash (extractor.py)
\* ------------------------------------------------------------------------
MaxTitleLen == 4

\* The characters of a text: the separator of the hashed string, and any other.
Chars == {"|", "a"}

Texts(lo, hi) == UNION {[1..n -> Chars] : n \in lo..hi}

\* extract_article raises on a title of fewer than 3 characters.
Titles == Texts(3, MaxTitleLen)

\* _parse_date: None, or the ISO form of a date (no separator in it)
UpdatedAts == {[given |-> FALSE, value |-> <<>>], [given |-> TRUE, value |-> <<"d">>]}

\* The normalised markdown of a body that is not too short.
Markdowns == Texts(1, 2)

Founds == [title : Titles, updated_at : UpdatedAts, body_markdown : Markdowns]

\* utils.sha256_text, taken as injective: the digest stands for its input
sha256_text(text) == <<"sha256", text>>

\* sha256_text(f"{title}|{updated_at or ''}|{markdown}")
content_hash(f) ==
  sha256_text(f.title \o <<"|">>
              \o (IF f.updated_at.given THEN f.updated_at.value ELSE <<>>)
              \o <<"|">> \o f.body_markdown)

\* extract_article on two pages, as far as content_hash
extract_article ==
  /\ hash_pc = "called"
  /\ hash1' = content_hash(found1)
  /\ hash2' = content_hash(found2)
  /\ hash_pc' = "returned"
  /\ UNCHANGED <<scrape_vars, order_vars, fetcher_vars, chunk_vars, upsert_vars, limiter_vars, found1, found2>>

InitHash ==
  /\ ScrapeIdle /\ ChunkIdle /\ UpsertIdle /\ LimiterIdle /\ FetcherIdle
  /\ found1 \in Founds
  /\ found2 \in Founds
  /\ hash1 = <<>>
  /\ hash2 = <<>>
  /\ hash_pc = "called"

NextHash == extract_article

SpecHash == InitHash /\ [][NextHash]_vars

\* ------------------------------------------------------------------------
\* Properties of the chunker
\* ------------------------------------------------------------------------
\* The text is one sentence or one list item.
SingleUnit(c) == Len(c.text) = 1

\* The call returned chunks that the merge pass made of several.
Absorbed == chunk_pc = "returned" /\ Len(merged) < Len(chunks)

\* C7: every chunk chunk_article returns has tokens_estimate <= max_tokens,
\* unless its text is a single sentence or a single list item whose own estimate
\* exceeds max_tokens.
C7_MaxTokens ==
  chunk_pc = "returned" =>
    \A i \in 1..Len(merged) :
      \/ merged[i].tokens_estimate <= chunk_cfg.max_tokens
      \/ SingleUnit(merged[i]) /\ estimate_tokens(merged[i].text) > chunk_cfg.max_tokens

\* The chunks of the first pass that open a chunk of the output: the first one
\* and every later one that is not below min_tokens.
Heads ==
  {j \in 1..Len(chunks) : j = 1 \/ chunks[j].tokens_estimate >= chunk_cfg.min_tokens}

\* The k-th of them, and the last chunk of the first pass that goes with it.
HeadAt(k) == CHOOSE j \in Heads : Cardinality({h \in Heads : h <= j}) = k

GroupEnd(k) == IF k = Cardinality(Heads) THEN Len(chunks) ELSE HeadAt(k + 1) - 1

\* The texts of the chunks j..e of the first pass, joined by blank lines.
GroupText(j, e) == Join([m \in 1..(e - j + 1) |-> chunks[j + m - 1].text], "\n\n")

\* The units of the texts of a list of chunks, in order.
RECURSIVE UnitIds(_)
UnitIds(cs) ==
  IF cs = <<>> THEN <<>>
  ELSE [i \in 1..Len(Head(cs).text) |-> Head(cs).text[i].id] \o UnitIds(Tail(cs))

\* C25: every returned chunk but the first has tokens_estimate >= min_tokens:
\* each chunk of the first pass below min_tokens, other than the first, is
\* appended after a blank line to the chunk before it in the output, across
\* sections too; no text is dropped, duplicated or reordered, and a merged
\* chunk keeps the heading_path and the section of the chunk it was merged into.
C25_MergePass ==
  chunk_pc = "returned" =>
    /\ \A i \in 2..Len(merged) : merged[i].tokens_estimate >= chunk_cfg.min_tokens
    /\ Len(merged) = Cardinality(Heads)
    /\ \A k \in 1..Len(merged) :
         LET j == HeadAt(k)
         IN  /\ merged[k].text = GroupText(j, GroupEnd(k))
             /\ merged[k].tokens_estimate = estimate_tokens(merged[k].text)
             /\ merged[k].heading_path = chunks[j].heading_path
             /\ merged[k].section = chunks[j].section
    /\ UnitIds(merged) = UnitIds(chunks)

\* A chunk below min_tokens was appended to a chunk of another section, and a
\* later chunk that reaches min_tokens opened a second chunk of the output.
C25_Witness ==
  /\ chunk_pc = "returned" /\ Len(chunks) = 3 /\ Len(merged) = 2
  /\ chunks[2].tokens_estimate < chunk_cfg.min_tokens
  /\ chunks[2].section # chunks[1].section
  /\ merged[1].section = chunks[1].section
  /\ Len(merged[1].text) = Len(chunks[1].text) + Len(chunks[2].text)

\* C8: the chunk ids chunk_article returns are doc_id#0 .. doc_id#(N-1) in output
\* order, N being the number of chunks returned, whatever the merge pass absorbed.
C8_ChunkIds ==
  chunk_pc = "returned" =>
    \A i \in 1..Len(merged) : merged[i].chunk_id = <<article.doc_id, i - 1>>

\* The merge pass absorbed a chunk that was not the last one: without the
\* re-indexing the ids returned would have a gap.
C8_Witness ==
  /\ Absorbed /\ Len(merged) >= 2
  /\ \E i \in 1..Len(merged) : \E j \in 1..Len(chunks) :
       /\ j # i
       /\ chunks[j].text[1].id = merged[i].text[1].id
       /\ merged[i].chunk_id = <<article.doc_id, i - 1>>

\* ------------------------------------------------------------------------
\* Properties of Cache.upsert
\* ------------------------------------------------------------------------
\* The stored value of a column of url before the calls, null without a record.
Stored(url, f) == IF url \in DOMAIN table0 THEN table0[url][f] ELSE NULL

\* C12: after Cache.upsert(url, patch), once or twice, every column of url's
\* record holds the patch value when that is non-null and its stored value
\* otherwise (null without a record); the other records are unchanged and no
\* record is deleted.
C12_UpsertMerges ==
  upsert_calls >= 1 =>
    /\ DOMAIN table = DOMAIN table0 \cup {upsert_url}
    /\ \A f \in Fields :
         table[upsert_url][f] =
           IF upsert_fields[f] # NULL THEN upsert_fields[f] ELSE Stored(upsert_url, f)
    /\ \A x \in DOMAIN table0 \ {upsert_url} : table[x] = table0[x]

\* The patch was applied twice to a record of which it overwrites one column,
\* keeps a stored one and leaves a null one null.
C12_Witness ==
  /\ upsert_calls = 2 /\ upsert_url \in DOMAIN table0
  /\ upsert_fields.status = "new" /\ table0[upsert_url].status = "old"
  /\ upsert_fields.error = NULL /\ table0[upsert_url].error = "old"
  /\ upsert_fields.etag = NULL /\ table0[upsert_url].etag = NULL
  /\ table[upsert_url].status = "new" /\ table[upsert_url].error = "old"
  /\ table[upsert_url].etag = NULL

\* ------------------------------------------------------------------------
\* Properties of RateLimiter
\* ------------------------------------------------------------------------
\* C13: with a positive rate the calls of wait() return one at a time, in the
\* order they acquired the lock, and two successive returns are at least 1/rate
\* apart; with rate None or <= 0 a call returns at the instant it was made and
\* the next-allowed instant stays as it was.
C13_RateLimited ==
  IF Unlimited(rate_per_sec)
    THEN /\ next_allowed = 0
         /\ \A i \in 1..Len(returns) : returns[i].at = called_at[returns[i].caller]
    ELSE /\ Len(returns) <= Len(lock_order) /\ Len(lock_order) <= Len(returns) + 1
         /\ \A i \in 1..Len(returns) : returns[i].caller = lock_order[i]
         /\ \A i \in 1..(Len(returns) - 1) :
              returns[i + 1].at - returns[i].at >= Interval(rate_per_sec)

\* Three callers entered wait() at the same instant of a limiter of one permit
\* per second; all have returned, the last one two intervals after the first.
C13_Witness ==
  /\ rate_per_sec.given /\ rate_per_sec.value = 1
  /\ \A c \in Callers : called_at[c] = 0 /\ wait_pc[c] = "done"
  /\ Len(returns) = Cardinality(Callers)
  /\ returns[Len(returns)].at - returns[1].at = 2 * Interval(rate_per_sec)

\* The article fields a chunk is to carry.
Denormalized ==
  {"source", "source_host", "updated_at", "breadcrumbs", "tags", "scraped_at",
   "content_hash"}

\* C16: every chunk chunk_article returns carries source and source_host equal
\* to the article's, beside updated_at, breadcrumbs, tags, scraped_at and
\* content_hash.
C16_SourceFields ==
  chunk_pc = "returned" =>
    \A i \in 1..Len(merged) : \A f \in Denormalized :
      f \in DOMAIN merged[i] /\ merged[i][f] = article[f]

Triple(f) ==
  <<f.title, IF f.updated_at.given THEN f.updated_at.value ELSE <<>>, f.body_markdown>>

\* C17: the content_hash values of two extracted articles are equal if and only
\* if their (title, updated_at, body_markdown) triples are equal, the hash
\* function being injective.
C17_HashIffTriple ==
  hash_pc = "returned" => (hash1 = hash2 <=> Triple(found1) = Triple(found2))

\* ------------------------------------------------------------------------
\* HttpFetcher.fetch (fetcher.py)
\* ------------------------------------------------------------------------
MaxRetries == 3

\* What _is_blocked_html looks for: a blocked keyword ("access denied",
\* "forbidden", "blocked", "verify you are human"), "captcha", "i'm not a robot".
Phrases == {"blocked", "captcha", "robot"}

\* A body is modelled by the phrases in its visible text and by the phrases in
\* what the detector strips (script and style content, markup).
HtmlBodies ==
  [visible : SUBSET Phrases, hidden : {{}, {"blocked"}, {"captcha", "robot"}}]

Statuses == {200, 304, 401, 403, 404, 500, 503}

Responses == [status : Statuses, body : HtmlBodies]

\* client.get returns a response or raises: httpx.RequestError (transport error,
\* timeout) or some other exception.
GetOutcomes ==
  {[raise |-> NULL, response |-> <<r>>] : r \in Responses}
  \cup {[raise |-> k, response |-> <<>>] : k \in {"RequestError", "Exception"}}

\* re.sub of script, style and tags, on the lower-cased html
Strip(html) == html.visible

\* _is_blocked_html
is_blocked_html(html) ==
  LET text == Strip(html)
  IN  "blocked" \in text \/ ("captcha" \in text /\ "robot" \in text)

\* FetchResult(url, status, html, ..., not_modified); html is <<>> for None
FetchResult(status, html, not_modified) ==
  [status |-> status, html |-> html, not_modified |-> not_modified]

\* The body of the try block after client.get returned a response.
Classify(r) ==
  IF r.status = 304
    THEN [raise |-> NULL, kind |-> "not_modified", ret |-> <<FetchResult(304, <<>>, TRUE)>>]
  ELSE IF r.status \in {401, 403}
    THEN [raise |-> "BlockedError", kind |-> "BlockedError", ret |-> <<>>]
  ELSE IF r.status >= 500
    THEN [raise |-> "FetchError", kind |-> "FetchError", ret |-> <<>>]
  ELSE IF is_blocked_html(r.body)
    THEN [raise |-> "BlockedError", kind |-> "BlockedError", ret |-> <<>>]
  ELSE [raise |-> NULL, kind |-> "ok", ret |-> <<FetchResult(r.status, <<r.body>>, FALSE)>>]

Caught_TransportOnly(k) == k = "RequestError"

\* except (httpx.RequestError, FetchError); BlockedError is a FetchError
Caught(k) == k \in {"RequestError", "FetchError", "BlockedError"}

RECURSIVE Pow(_, _)
Pow(b, k) == IF k = 0 THEN 1 ELSE b * Pow(b, k - 1)

Min(a, b) == IF a <= b THEN a ELSE b

Delay_Uncapped(k) == Pow(backoff_base, k)

\* delay = min(backoff_base ** attempt, backoff_max)
Delay(k) == Min(Pow(backoff_base, k), backoff_max)

\* `for attempt in range(retries)`: the next iteration, or the end of the loop,
\* after which the function returns None.
LoopTo(k) ==
  /\ attempt' = k
  /\ fetch_pc' = IF k < retries THEN "wait" ELSE "returned"

\* fetch(url, cache_entry) is entered: up to the first await.
fetch ==
  /\ fetch_pc = "called"
  /\ LoopTo(0)
  /\ UNCHANGED <<scrape_vars, order_vars, chunk_vars, upsert_vars, limiter_vars, hash_vars, selector_vars,
                 retries, backoff_base, backoff_max, fetch_arg, response, fetch_ret, fetch_exc,
                 waits, gets, sleeps, attempt_log>>

\* await self.limiter.wait() returns; client.get is called.
limiter_wait ==
  /\ fetch_pc = "wait"
  /\ waits' = waits + 1
  /\ fetch_pc' = "get"
  /\ UNCHANGED <<scrape_vars, order_vars, chunk_vars, upsert_vars, limiter_vars, hash_vars, selector_vars,
                 retries, backoff_base, backoff_max, fetch_arg, attempt, response, fetch_ret,
                 fetch_exc, gets, sleeps, attempt_log>>

\* await self.client.get(...) returns or raises; the rest of the try block and
\* the except clause, up to the return, the raise or the await of the sleep.
client_get ==
  /\ fetch_pc = "get"
  /\ gets' = gets + 1
  /\ \E o \in GetOutcomes :
       LET c == IF o.raise = NULL THEN Classify(o.response[1])
                ELSE [raise |-> o.raise, kind |-> o.raise, ret |-> <<>>]
       IN  /\ response' = o.response
           /\ attempt_log' = Append(attempt_log,
                                    [kind |-> c.kind, conditional |-> ValidatorsSent(fetch_arg)])
           /\ IF c.raise = NULL
                THEN /\ fetch_ret' = c.ret
                     /\ fetch_pc' = "returned"
                     /\ UNCHANGED <<fetch_exc, sleeps>>
              ELSE IF Caught(c.raise) /\ ~(attempt >= retries - 1)
                THEN /\ sleeps' = Append(sleeps, Delay(attempt))
                     /\ fetch_pc' = "sleep"
                     /\ UNCHANGED <<fetch_ret, fetch_exc>>
              ELSE /\ fetch_exc' = c.raise
                   /\ fetch_pc' = "raised"
                   /\ UNCHANGED <<fetch_ret, sleeps>>
  /\ UNCHANGED <<scrape_vars, order_vars, chunk_vars, upsert_vars, limiter_vars, hash_vars, selector_vars,
                 retries, backoff_base, backoff_max, fetch_arg, attempt, waits>>

\* await asyncio.sleep(delay) returns; the loop goes on.
backoff_sleep ==
  /\ fetch_pc = "sleep"
  /\ LoopTo(attempt + 1)
  /\ UNCHANGED <<scrape_vars, order_vars, chunk_vars, upsert_vars, limiter_vars, hash_vars, selector_vars,
                 retries, backoff_base, backoff_max, fetch_arg, response, fetch_ret, fetch_exc,
                 waits, gets, sleeps, attempt_log>>

\* The cache entry the orchestrator passes: none, or a row with validators.
FetchArgs == {<<>>, <<Row("d1", "h1", NULL, "e0", "lm0", "t0", "success", NULL)>>}

InitFetch ==
  /\ ScrapeIdle /\ ChunkIdle /\ UpsertIdle /\ LimiterIdle /\ HashIdle /\ SelectorIdle
  /\ retries \in 0..MaxRetries
  /\ backoff_base \in {1, 2}
  /\ backoff_max \in {1, 3}
  /\ fetch_arg \in FetchArgs
  /\ attempt = 0
  /\ fetch_pc = "called"
  /\ response = <<>>
  /\ fetch_ret = <<>>
  /\ fetch_exc = NULL
  /\ waits = 0 /\ gets = 0
  /\ sleeps = <<>>
  /\ attempt_log = <<>>

NextFetch == fetch \/ limiter_wait \/ client_get \/ backoff_sleep

SpecFetch == InitFetch /\ [][NextFetch]_vars

\* An attempt failed in one of the ways that are retried.
Failed(k) == k \in {"RequestError", "FetchError", "BlockedError"}

\* C23: with retries >= 1 a call makes at most `retries` attempts, each one
\* limiter wait followed by one GET; it returns at the first attempt that gives a
\* 304 or a page that is not blocked; every failed attempt but the last one
\* allowed is followed by a sleep of min(backoff_base^k, backoff_max), k counting
\* the failed attempts from 0; the last failed attempt raises its exception with
\* no further request and no sleep, and the call never returns without a result.
C23_Retries ==
  (retries >= 1 /\ fetch_pc # "idle") =>
    /\ gets <= retries /\ waits <= retries
    /\ waits = gets + (IF fetch_pc = "get" THEN 1 ELSE 0)
    /\ Len(attempt_log) = gets
    /\ \A i \in 1..(gets - 1) : Failed(attempt_log[i].kind)
    /\ Len(sleeps) = Cardinality({i \in 1..gets : Failed(attempt_log[i].kind) /\ i < retries})
    /\ \A k \in 1..Len(sleeps) : sleeps[k] = Min(Pow(backoff_base, k - 1), backoff_max)
    /\ fetch_pc = "returned" =>
         /\ fetch_ret # <<>>
         /\ attempt_log[gets].kind \in {"ok", "not_modified"}
    /\ fetch_pc = "raised" =>
         /\ fetch_exc = attempt_log[gets].kind
         /\ Failed(fetch_exc) => gets = retries /\ Len(sleeps) = retries - 1
    /\ fetch_pc = "sleep" => Failed(attempt_log[gets].kind) /\ gets < retries

\* Three attempts: a transport error, a blocked page, then a page; the second
\* sleep was capped.
C23_Witness ==
  /\ retries = 3 /\ fetch_pc = "returned" /\ gets = 3 /\ waits = 3
  /\ attempt_log[1].kind = "RequestError" /\ attempt_log[2].kind = "BlockedError"
  /\ attempt_log[3].kind = "ok"
  /\ backoff_base = 2 /\ backoff_max = 1 /\ sleeps = <<1, 1>>

\* C24: a 304 gives a result with not_modified and no body; 401 and 403 give
\* BlockedError; a status of 500 or more gives FetchError; a response of any
\* other status gives BlockedError when its visible text holds a block phrase
\* and is returned with its body otherwise; only 2xx responses are returned
\* with a body.
C24_Classify ==
  (gets >= 1 /\ response # <<>>) =>
    LET last == attempt_log[gets].kind
        r == response[1]
    IN  /\ r.status = 304 =>
             last = "not_modified" /\ fetch_ret = <<FetchResult(304, <<>>, TRUE)>>
        /\ r.status \in {401, 403} => last = "BlockedError"
        /\ r.status >= 500 => last = "FetchError"
        /\ (r.status \notin {304, 401, 403} /\ r.status < 500) =>
             IF "blocked" \in r.body.visible
                \/ {"captcha", "robot"} \subseteq r.body.visible
               THEN last = "BlockedError"
               ELSE last = "ok" /\ fetch_ret = <<FetchResult(r.status, <<r.body>>, FALSE)>>
        /\ last = "ok" => r.status \in 200..299

\* ------------------------------------------------------------------------
\* wait_for_any_selector (fetcher.py)
\* ------------------------------------------------------------------------
MaxSelectors == 3

\* task.done(): the wait returned, raised, or the task was cancelled
Done(t) == t \in {"ok", "failed", "cancelled"}

Cancel_Never(t) == t

\* if not task.done(): task.cancel()
Cancel(t) == IF Done(t) THEN t ELSE "cancelling"

AfterFailure_Raise(n) == "raise"

\* except Exception: continue; after the last task, raise FetchError
AfterFailure(n) == IF n = selectors THEN "raise" ELSE "continue"

\* The finally block up to its await: the tasks not done are cancelled.
Finally(exit) ==
  /\ sel_exit' = exit
  /\ tasks' = [i \in DOMAIN tasks |-> Cancel(tasks[i])]
  /\ sel_pc' = "gather"

\* The call is entered: no selectors, or one task per selector.
wait_for_any_selector ==
  /\ sel_pc = "called"
  /\ IF selectors = 0
       THEN /\ sel_pc' = "returned"
            /\ sel_exit' = "return"
            /\ UNCHANGED tasks
       ELSE /\ tasks' = [i \in 1..selectors |-> "pending"]
            /\ sel_pc' = "loop"
            /\ UNCHANGED sel_exit
  /\ UNCHANGED <<scrape_vars, order_vars, chunk_vars, upsert_vars, limiter_vars, hash_vars, fetch_vars,
                 selectors, completed, awaited>>

\* page.wait_for_selector of task i returns, or raises (no match in time).
wait_for_selector(i) ==
  /\ sel_pc \in {"loop", "gather"}
  /\ i \in DOMAIN tasks /\ tasks[i] = "pending"
  /\ \E r \in {"ok", "failed"} : tasks' = [tasks EXCEPT ![i] = r]
  /\ completed' = Append(completed, i)
  /\ UNCHANGED <<scrape_vars, order_vars, chunk_vars, upsert_vars, limiter_vars, hash_vars, fetch_vars,
                 selectors, awaited, sel_pc, sel_exit>>

\* `await task` of the loop over as_completed(tasks): the next task in the order
\* of completion; the rest of the iteration, and the finally block if the try
\* block is left.
await_task ==
  /\ sel_pc = "loop" /\ awaited < Len(completed)
  /\ awaited' = awaited + 1
  /\ IF tasks[completed[awaited + 1]] = "ok"
       THEN Finally("return")
     ELSE IF AfterFailure(awaited + 1) = "raise"
       THEN Finally("raise")
     ELSE UNCHANGED <<tasks, sel_pc, sel_exit>>
  /\ UNCHANGED <<scrape_vars, order_vars, chunk_vars, upsert_vars, limiter_vars, hash_vars, fetch_vars,
                 selectors, completed>>

\* A task whose cancellation was requested ends cancelled.
task_cancelled(i) ==
  /\ sel_pc = "gather"
  /\ i \in DOMAIN tasks /\ tasks[i] = "cancelling"
  /\ tasks' = [tasks EXCEPT ![i] = "cancelled"]
  /\ UNCHANGED <<scrape_vars, order_vars, chunk_vars, upsert_vars, limiter_vars, hash_vars, fetch_vars,
                 selectors, completed, awaited, sel_pc, sel_exit>>

\* await asyncio.gather(*tasks, return_exceptions=True) returns; the call
\* returns or lets its FetchError through.
gather_returns ==
  /\ sel_pc = "gather"
  /\ \A i \in DOMAIN tasks : Done(tasks[i])
  /\ sel_pc' = IF sel_exit = "return" THEN "returned" ELSE "raised"
  /\ UNCHANGED <<scrape_vars, order_vars, chunk_vars, upsert_vars, limiter_vars, hash_vars, fetch_vars,
                 selectors, tasks, completed, awaited, sel_exit>>

InitSelectors ==
  /\ ScrapeIdle /\ ChunkIdle /\ UpsertIdle /\ LimiterIdle /\ HashIdle /\ FetchIdle
  /\ selectors \in 0..MaxSelectors
  /\ tasks = <<>>
  /\ completed = <<>>
  /\ awaited = 0
  /\ sel_pc = "called"
  /\ sel_exit = NULL

NextSelectors ==
  \/ wait_for_any_selector
  \/ \E i \in 1..MaxSelectors : wait_for_selector(i)
  \/ await_task
  \/ \E i \in 1..MaxSelectors : task_cancelled(i)
  \/ gather_returns

SpecSelectors == InitSelectors /\ [][NextSelectors]_vars

\* The tasks the loop has awaited so far, in order.
Awaited == [k \in 1..awaited |-> tasks[completed[k]]]

\* C30: with a non-empty selector list the call leaves its loop to return as
\* soon as a wait it awaits has succeeded, whatever failed before; it raises
\* only when every wait has failed; and when it has returned or raised every
\* task it started is finished or cancelled.
C30_AnySelector ==
  selectors >= 1 =>
    /\ sel_pc = "loop" => \A k \in 1..awaited : Awaited[k] = "failed"
    /\ sel_exit = "return" =>
         /\ awaited >= 1 /\ Awaited[awaited] = "ok"
         /\ \A k \in 1..(awaited - 1) : Awaited[k] = "failed"
    /\ sel_exit = "raise" =>
         /\ awaited = selectors
         /\ \A i \in DOMAIN tasks : tasks[i] = "failed"
    /\ sel_pc = "returned" => sel_exit = "return"
    /\ sel_pc = "raised" => sel_exit = "raise"
    /\ sel_pc \in {"returned", "raised"} =>
         /\ DOMAIN tasks = 1..selectors
         /\ \A i \in DOMAIN tasks : Done(tasks[i])

\* The call returned: the wait that finished first had failed, the next one
\* succeeded, and the third, still pending then, was cancelled.
C30_Witness ==
  /\ selectors = 3 /\ sel_pc = "returned" /\ awaited = 2
  /\ Awaited = <<"failed", "ok">>
  /\ \E i \in DOMAIN tasks : tasks[i] = "cancelled"

\* ------------------------------------------------------------------------
\* scrape_urls with the answers of its collaborators fixed beforehand
\* ------------------------------------------------------------------------
\* The answers of HttpFetcher.fetch, of PlaywrightFetcher.fetch and of
\* extract_article for a URL.  The doc_id a URL's page yields is the one of its
\* cache row: no two URLs of the list share a doc_id.
ScriptedHttp ==
  {o \in HttpOutcomes : o.raise # "Exception" /\ (o.result.html = "" => o.result.etag = NULL)}

ScriptedPw == {o \in PwOutcomes : o.raise # "Exception" /\ o.result.html # ""}

ScriptedExtract(u) ==
  {x \in ExtractOutcomes(u) :
     /\ x.raise # "Exception"
     /\ x.raise = NULL => x.article.doc_id = DocOf(u)}

\* A script names an answer only for the calls the task of the URL makes:
\* the others keep the answer of NoScript.
NeedsHttp(u) ==
  ~RobotsBlocks(u) /\ ~ResumeSkip(Get(cache, u), existing_articles) /\ fetch_mode # "true"

NeedsPw(u, http) ==
  /\ ~RobotsBlocks(u) /\ ~ResumeSkip(Get(cache, u), existing_articles)
  /\ \/ fetch_mode = "true" /\ pw_fetcher
     \/ fetch_mode # "true" /\ http.raise = "BlockedError" /\ UseFallback

NeedsExtract(u, http, pw) ==
  \/ NeedsPw(u, http) /\ pw.raise = NULL /\ pw.result.html = "html"
  \/ NeedsHttp(u) /\ http.raise = NULL /\ http.result.html = "html"

Scripts(u) ==
  {sc \in [http : ScriptedHttp, pw : ScriptedPw, ext : ScriptedExtract(u)] :
     /\ ~NeedsHttp(u) => sc.http = NoScript(u).http
     /\ ~NeedsPw(u, sc.http) => sc.pw = NoScript(u).pw
     /\ ~NeedsExtract(u, sc.http, sc.pw) => sc.ext = NoScript(u).ext}

\* The step of a task took the answer the script names.
Scripted(u) ==
  /\ pc[u] = "http_fetch" /\ pc'[u] # "http_fetch" =>
       /\ http_outcome'[u] = OutcomeKind(script[u].http)
       /\ script[u].http.raise = NULL => fetch_result'[u] = script[u].http.result
  /\ pc[u] = "pw_fetch" /\ pc'[u] # "pw_fetch" =>
       IF script[u].pw.raise = NULL
         THEN fetch_result'[u] = script[u].pw.result
         ELSE ~fetch_result'[u].set /\ patch'[u].error = Message(script[u].pw.raise)
  /\ extract_calls'[u] # extract_calls[u] =>
       IF script[u].ext.raise = NULL
         THEN /\ pc'[u] = "upsert_success"
              /\ patch'[u].doc_id = script[u].ext.article.doc_id
              /\ patch'[u].content_hash = script[u].ext.article.content_hash
         ELSE /\ pc'[u] # "upsert_success"
              /\ patch'[u].error = Message(script[u].ext.raise)

InitOrder ==
  /\ ScrapeInit
  /\ ChunkIdle /\ UpsertIdle /\ LimiterIdle /\ HashIdle /\ FetcherIdle
  /\ obey_robots => robots_allows = [u \in Urls |-> u # "u1"]
  /\ "u2" \in DOMAIN cache /\ cache["u2"].status = "success"
  /\ cache0 = cache
  /\ \E s1 \in Scripts("u1"), s2 \in Scripts("u2") :
       script = [u \in Urls |-> IF u = "u1" THEN s1 ELSE s2]

\* The steps of Next, those in which a fetch or the extractor answers held to
\* the script.
NextOrder ==
  \/ \E u \in Urls : Start(u)
  \/ \E u \in Urls : CacheLookup(u)
  \/ \E u \in Urls : HttpFetch(u) /\ Scripted(u)
  \/ \E u \in Urls : PwFetch(u) /\ Scripted(u)
  \/ \E u \in Urls : Screenshot(u)
  \/ \E u \in Urls : UpsertBlocked(u)
  \/ \E u \in Urls : UpsertNotModified(u)
  \/ \E u \in Urls : UpsertSuccess(u)
  \/ \E u \in Urls : UpsertFailed(u)
  \/ GatherDone
  \/ Finish

SpecOrder == InitOrder /\ [][NextOrder]_vars

\* What a task leaves behind: the counters it added to, the arguments of its
\* cache upsert if it made one, and the article it extracted if it did.
Verdict(count, p, art) == [count |-> count, patch |-> p, article |-> art]

\* The except clauses of `process`.
Failure(k, msg) ==
  LET blocked == ExceptClause(k) = "blocked"
  IN  Verdict(IF blocked THEN {"failed", "auth_required"} ELSE {"failed"},
              <<FailurePatch(IF blocked THEN "auth_required" ELSE "error",
                             IF blocked THEN "auth_required" ELSE msg)>>,
              <<>>)

\* From `if not html` to the upsert.
Extracted(u, entry, fr) ==
  IF fr.html = NULL \/ fr.html = "" THEN Failure("FetchError", "Empty HTML")
  ELSE LET x == script[u].ext
       IN  IF x.raise # NULL THEN Failure(x.raise, Message(x.raise))
           ELSE Verdict(ReconcileStats(entry, x.article), <<SuccessPatch(x.article, fr)>>,
                        <<x.article>>)

Rendered(u, entry) ==
  LET o == script[u].pw
  IN  IF o.raise = NULL THEN Extracted(u, entry, o.result)
      ELSE Failure(o.raise, Message(o.raise))

\* `process(url)` run alone from the startup state, its calls answering as the
\* script says.
Alone(u) ==
  LET entry == Get(cache0, u)
      o == script[u].http
  IN  IF RobotsBlocks(u)
        THEN Verdict({"skipped"},
                     <<[NoFields EXCEPT !.status = "blocked", !.last_scraped = "t1"]>>, <<>>)
      ELSE IF ResumeSkip(entry, loaded) THEN Verdict({"skipped"}, <<>>, <<>>)
      ELSE IF fetch_mode = "true"
        THEN IF ~pw_fetcher THEN Failure("FetchError", "Playwright unavailable")
             ELSE Rendered(u, entry)
      ELSE IF o.raise = NULL
        THEN IF o.result.not_modified
               THEN Verdict({"skipped", "unchanged"},
                            <<[NoFields EXCEPT !.status = "success", !.last_scraped = "t1"]>>,
                            <<>>)
               ELSE Extracted(u, entry, o.result)
      ELSE IF o.raise = "BlockedError" /\ UseFallback THEN Rendered(u, entry)
      ELSE Failure(o.raise, Message(o.raise))

\* The tasks run one after the other, in some fixed order of the URLs.
RECURSIVE OneByOne(_, _, _)
OneByOne(todo, c, corpus) ==
  IF todo = {} THEN [cache |-> c, corpus |-> corpus]
  ELSE LET u == CHOOSE x \in todo : TRUE
           v == Alone(u)
       IN  OneByOne(todo \ {u},
                    IF v.patch = <<>> THEN c ELSE Upsert(c, u, v.patch[1]),
                    IF v.article = <<>> THEN corpus
                    ELSE ReconcileCorpus(Get(cache0, u), v.article[1], corpus))

ExpectedStats ==
  [f \in DOMAIN ZeroStats |-> Cardinality({u \in Urls : f \in Alone(u).count})]

\* Timestamps aside.
NoTimes(c) == [u \in DOMAIN c |-> [c[u] EXCEPT !.last_scraped = NULL]]

Undated(as) == {[a EXCEPT !.scraped_at = NULL] : a \in as}

\* C29: with no doc_id shared between URLs and the answers of the fetches and of
\* the extractor fixed per URL, the counters, the cache records (timestamps
\* aside) and the set of persisted articles that scrape_urls ends with are
\* those of the tasks run one after the other, whatever the interleaving of
\* the tasks and whatever `concurrency`: no update of the shared counters or of
\* the shared corpus is lost.
C29_OrderFree ==
  run_pc = "returned" =>
    LET end == OneByOne(Urls, cache0, loaded)
    IN  /\ stats = ExpectedStats
        /\ NoTimes(cache) = NoTimes(end.cache)
        /\ Undated(articles_file) = Undated(CorpusValues(end.corpus))
        /\ Len(errors) = ExpectedStats.failed

\* Two permits, an empty corpus at startup: both URLs were captured, and both
\* articles are in the corpus file.
C29_Witness ==
  /\ run_pc = "returned" /\ concurrency = 2 /\ DOMAIN loaded = {}
  /\ stats.success = 2 /\ stats.updated = 1
  /\ {a.doc_id : a \in articles_file} = DocIds

====
